---- MODULE Spec2Model ----
(***************************************************************************)
(* A model of the BlueBrain hpc-coding-conventions tooling (src/cpp/lib.py *)
(* and src/cpp/cmake/cpplib.py): the task dispatcher                       *)
(* (BBPProject.run_task_on_codebase, tools_for_task, Tool.run), the file   *)
(* filter (Tool.accepts_file, make_file_filter) and the tool resolver      *)
(* (where, ExecutableTool.find_tool_in_path, ExecutableTool.configure).    *)
(*                                                                         *)
(* Strings that the code takes apart (paths, program names, versions) are  *)
(* sequences of one-character strings; strings that it only compares       *)
(* (task names, language names, tool keys) are TLA+ strings.               *)
(***************************************************************************)
EXTENDS Integers, Sequences, FiniteSets, TLC

VARIABLES
    \* ---- the task dispatcher: arguments and environment of one call
    task,                   \* run_task_on_codebase(task, ...)
    languages,              \* [given |-> BOOLEAN, list |-> sequence]; ~given is None
    sources,                \* explicit files and directories (None and [] alike)
    project,                \* [tools |-> enabled tool keys, user_config |-> per tool]
    repo,                   \* [tracked |-> git ls-tree listing, cap |-> cli_max_num_files]
    \* ---- the task dispatcher: locals of run_task_on_codebase and Tool.run
    pc,                     \* position in the call
    tools,                  \* list(self.tools_for_task(task, languages))
    git_ls_tree_required,
    git_ls_tree,            \* output of the listing, [] when none is made
    files,                  \* the local `files` when the build loop ends
    tasks,                  \* the dict `tasks`, as its items in insertion order
    runs,                   \* the Tool.run calls made: [tool, files, returned]
    chunks,                 \* batches of the current Tool.run still to invoke
    run_errors,             \* num_errors of the current Tool.run
    invoked,                \* external commands run: [tool, files, status]
    num_errors,             \* num_errors of run_task_on_codebase
    \* ---- the file filter
    flt,
    \* ---- the tool resolver
    res,
    \* ---- the configuration files and their merge
    yml,
    \* ---- the wrapper script of cpp/cmake that is running
    script

dispVars == <<task, languages, sources, project, repo, pc, tools,
              git_ls_tree_required, git_ls_tree, files, tasks, runs, chunks,
              run_errors, invoked, num_errors>>
vars == <<dispVars, flt, res, yml, script>>

-----------------------------------------------------------------------------
(* Bounds of the model *)

\* longest list of explicit sources
MaxSources == 2
\* largest cli_max_num_files the tools are given
MaxChunk == 2
\* longest argument list of a lone Tool.run call
MaxRunFiles == 3
\* longest exclude list and longest include list given to the file filter
MaxPatterns == 2

-----------------------------------------------------------------------------
(* Generic helpers *)

Min(a, b) == IF a <= b THEN a ELSE b

Elems(seq) == {seq[i] : i \in 1..Len(seq)}

Prefix(p, s) == Len(p) <= Len(s) /\ SubSeq(s, 1, Len(p)) = p

Suffix(p, s) == Len(p) <= Len(s) /\ SubSeq(s, Len(s) - Len(p) + 1, Len(s)) = p

SeqsUpTo(S, n) == UNION {[1..k -> S] : k \in 0..n}

\* the orders in which a set can be iterated
Perms(S) == {s \in [1..Cardinality(S) -> S] :
                \A i, j \in 1..Cardinality(S) : i # j => s[i] # s[j]}

RECURSIVE Concat(_)
Concat(seqs) == IF seqs = <<>> THEN <<>> ELSE Head(seqs) \o Concat(Tail(seqs))

RECURSIVE SelectIdx(_, _, _)
\* the elements of seq, from index i on, that are in the set keep
SelectIdx(seq, i, keep) ==
    IF i > Len(seq) THEN <<>>
    ELSE (IF seq[i] \in keep THEN <<seq[i]>> ELSE <<>>) \o SelectIdx(seq, i + 1, keep)

RECURSIVE AtIdx(_, _, _)
\* the elements of seq, from index i on, whose index is in the set idxs
AtIdx(seq, i, idxs) ==
    IF i > Len(seq) THEN <<>>
    ELSE (IF i \in idxs THEN <<seq[i]>> ELSE <<>>) \o AtIdx(seq, i + 1, idxs)

Least(S) == CHOOSE i \in S : \A j \in S : i <= j

-----------------------------------------------------------------------------
(* Regular expressions of the include / exclude lists.  A compiled pattern  *)
(* is [pre, wild, suf]: the regex `pre` when wild is FALSE and the regex    *)
(* `pre.*suf$` when it is TRUE.  Pattern.match anchors at the start only.   *)

re_match(regexp, file) ==
    IF regexp.wild
    THEN /\ Len(file) >= Len(regexp.pre) + Len(regexp.suf)
         /\ Prefix(regexp.pre, file)
         /\ Suffix(regexp.suf, file)
    ELSE Prefix(regexp.pre, file)

RE_CPP == [pre |-> <<>>, wild |-> TRUE, suf |-> <<".", "c">>]
RE_PY == [pre |-> <<>>, wild |-> TRUE, suf |-> <<".", "p">>]
RE_CMAKE == [pre |-> <<>>, wild |-> TRUE, suf |-> <<".", "k">>]
RE_DIR_D == [pre |-> <<"d", "/">>, wild |-> TRUE, suf |-> <<>>]
RE_D == [pre |-> <<"d">>, wild |-> FALSE, suf |-> <<>>]

-----------------------------------------------------------------------------
(* The file filter *)

accepts_file_includes_first(user_config, file) ==
    IF \E i \in 1..Len(user_config.include) : re_match(user_config.include[i], file)
    THEN TRUE
    ELSE FALSE

\* Tool.accepts_file: the exclude loop returns False at its first match, then
\* the include loop returns True at its first match, then False.
accepts_file(user_config, file) ==
    IF \E i \in 1..Len(user_config.exclude) : re_match(user_config.exclude[i], file)
    THEN FALSE
    ELSE IF \E i \in 1..Len(user_config.include) : re_match(user_config.include[i], file)
         THEN TRUE
         ELSE FALSE

\* make_file_filter(excludes_re, files_re)(cpp_file): True rejects the file
make_file_filter(excludes_re, files_re, cpp_file) ==
    IF \E i \in 1..Len(excludes_re) : re_match(excludes_re[i], cpp_file)
    THEN TRUE
    ELSE IF \E i \in 1..Len(files_re) : re_match(files_re[i], cpp_file)
         THEN FALSE
         ELSE TRUE

-----------------------------------------------------------------------------
(* Tool descriptors *)

ToolOrder == <<"ClangFormat", "CMakeFormat", "ClangTidy", "Flake8", "Black">>

ToolKeys == Elems(ToolOrder)

CLANG_FORMAT == <<"c", "l", "a", "n", "g", "-", "f", "o", "r", "m", "a", "t">>
CMAKE_FORMAT == <<"c", "m", "a", "k", "e", "-", "f", "o", "r", "m", "a", "t">>
CLANG_TIDY == <<"c", "l", "a", "n", "g", "-", "t", "i", "d", "y">>
FLAKE8 == <<"f", "l", "a", "k", "e", "8">>
BLACK == <<"b", "l", "a", "c", "k">>

LowerLetters ==
    {"a", "b", "c", "d", "e", "f", "g", "h", "i", "j", "k", "l", "m",
     "n", "o", "p", "q", "r", "s", "t", "u", "v", "w", "x", "y", "z"}

DigitChars == {"0", "1", "2", "3", "4", "5", "6", "7", "8", "9"}

\* A glob pattern is a sequence of elements [star, chars]: `*` is a star, a
\* literal character or a class `[...]` is the set of characters it admits.
GlobLit(c) == [star |-> FALSE, chars |-> {c}]
GlobStar == [star |-> TRUE, chars |-> {}]
GlobClass(S) == [star |-> FALSE, chars |-> S]

\* the pattern written as the string s, which holds no class
GlobOfString(s) ==
    [i \in 1..Len(s) |-> IF s[i] = "*" THEN GlobStar ELSE GlobLit(s[i])]

\* names_glob_patterns=["clang-format-[-a-z0-9]"]
CLANG_FORMAT_GLOBS ==
    << GlobOfString(CLANG_FORMAT \o <<"-">>)
       \o <<GlobClass({"-"} \cup LowerLetters \cup DigitChars)>> >>

\* names_glob_patterns="clang-tidy-*": a string, which `for pattern in
\* glob_patterns` iterates character by character
CLANG_TIDY_GLOBS ==
    LET str == CLANG_TIDY \o <<"-", "*">>
    IN [i \in 1..Len(str) |-> GlobOfString(<<str[i]>>)]

\* The entries of TOOLS_DESCRIPTION.  names_glob_patterns is <<>> where the
\* descriptor has none (config.get gives None); pip_pkg is its truth value.
TOOLS_DESCRIPTION ==
    [k \in ToolKeys |->
        CASE k = "ClangFormat" ->
               [name |-> CLANG_FORMAT, names_glob_patterns |-> CLANG_FORMAT_GLOBS,
                cli_accept_dir |-> FALSE, pip_pkg |-> TRUE,
                provides |-> ("format" :> <<"C++">>)]
          [] k = "CMakeFormat" ->
               [name |-> CMAKE_FORMAT, names_glob_patterns |-> <<>>,
                cli_accept_dir |-> FALSE, pip_pkg |-> TRUE,
                provides |-> ("format" :> <<"CMake">>)]
          [] k = "ClangTidy" ->
               [name |-> CLANG_TIDY, names_glob_patterns |-> CLANG_TIDY_GLOBS,
                cli_accept_dir |-> FALSE, pip_pkg |-> FALSE,
                provides |-> ("static-analysis" :> <<"C++">>
                              @@ "clang-tidy" :> <<"C++">>)]
          [] k = "Flake8" ->
               [name |-> FLAKE8, names_glob_patterns |-> <<>>,
                cli_accept_dir |-> TRUE, pip_pkg |-> TRUE,
                provides |-> ("static-analysis" :> <<"Python">>)]
          [] k = "Black" ->
               [name |-> BLACK, names_glob_patterns |-> <<>>,
                cli_accept_dir |-> TRUE, pip_pkg |-> TRUE,
                provides |-> ("format" :> <<"Python">>)]]

Tasks == {"format", "static-analysis", "clang-tidy"}

\* str.lower on the language names
Lower(s) ==
    CASE s = "C++" -> "c++"
      [] s = "CMake" -> "cmake"
      [] s = "Python" -> "python"
      [] OTHER -> s

\* the languages a descriptor declares for a task ({} of .get(task, {}))
TaskLanguages(k, t) ==
    IF t \in DOMAIN TOOLS_DESCRIPTION[k].provides
    THEN TOOLS_DESCRIPTION[k].provides[t]
    ELSE <<>>

\* BBPProject.supported_languages: a set of the names as the descriptors spell them
supported_languages(t) ==
    UNION {Elems(TaskLanguages(k, t)) : k \in ToolKeys}

\* the test `lang.lower() in languages` of tools_for_task
lang_wanted(lang, wanted) == Lower(lang) \in wanted

RECURSIVE YieldPerLanguage(_, _, _, _)
\* the inner loop of tools_for_task: the tool is yielded once per declared
\* language found in the requested ones
YieldPerLanguage(k, langs, i, wanted) ==
    IF i > Len(langs) THEN <<>>
    ELSE (IF lang_wanted(langs[i], wanted) THEN <<k>> ELSE <<>>)
         \o YieldPerLanguage(k, langs, i + 1, wanted)

RECURSIVE ToolsLoop(_, _, _, _)
\* the loop over self.tools.values(): the enabled tools in descriptor order
ToolsLoop(i, t, wanted, enabledTools) ==
    IF i > Len(ToolOrder) THEN <<>>
    ELSE (IF ToolOrder[i] \in enabledTools
          THEN YieldPerLanguage(ToolOrder[i], TaskLanguages(ToolOrder[i], t), 1, wanted)
          ELSE <<>>)
         \o ToolsLoop(i + 1, t, wanted, enabledTools)

\* BBPProject.tools_for_task, as the list its generator yields
tools_for_task(enabledTools, t, langs) ==
    ToolsLoop(1, t,
              IF langs.given THEN Elems(langs.list) ELSE supported_languages(t),
              enabledTools)

-----------------------------------------------------------------------------
(* The file system and the repository the dispatcher runs in *)

F_A == <<"a", ".", "c">>
F_DB == <<"d", "/", "b", ".", "c">>
F_DE == <<"d", "/", "e", ".", "p">>
F_G == <<"g", ".", "c">>
F_U == <<"u", ".", "p">>
DIR_D == <<"d">>
CWD == <<"/", "w">>

Dirs == {DIR_D}

isdir(src) == src \in Dirs

\* os.path.join(os.getcwd(), f)
join_cwd(f) == IF Prefix(<<"/">>, f) THEN f ELSE CWD \o <<"/">> \o f

RECURSIVE UnderDirs(_, _, _)
\* the tracked paths, from index i on, that are below one of the directories
UnderDirs(tracked, i, dirs) ==
    IF i > Len(tracked) THEN <<>>
    ELSE (IF \E j \in 1..Len(dirs) : Prefix(dirs[j] \o <<"/">>, tracked[i])
          THEN <<tracked[i]>> ELSE <<>>)
         \o UnderDirs(tracked, i + 1, dirs)

\* `git ls-tree -r -z --name-only --full-name HEAD <src_dirs>` split on NUL:
\* every name ends with NUL, so the split ends with an empty string
git_ls_tree_output(tracked, src_dirs) ==
    (IF src_dirs = <<>> THEN tracked ELSE UnderDirs(tracked, 1, src_dirs)) \o << <<>> >>

-----------------------------------------------------------------------------
(* Tool.run *)

chunkify_overlapping(seq, chunk_size) ==
    [k \in 1..((Len(seq) + chunk_size - 1) \div chunk_size) |->
        SubSeq(seq, (k - 1) * chunk_size + 1, Min(k * chunk_size + 1, Len(seq)))]

\* chunkify: seq[start : start + chunk_size] for start in range(0, len, chunk_size)
chunkify(seq, chunk_size) ==
    [k \in 1..((Len(seq) + chunk_size - 1) \div chunk_size) |->
        SubSeq(seq, (k - 1) * chunk_size + 1, Min(k * chunk_size, Len(seq)))]

run_chunk_result_status(status) == status

\* Tool._run_chunk: return 1 if status != 0 else 0
run_chunk_result(status) == IF status # 0 THEN 1 ELSE 0

remaining_chunks_abort(status, todo) == IF status # 0 THEN <<>> ELSE Tail(todo)

\* the loop of Tool.run goes on to the next chunk whatever the status was
remaining_chunks(status, todo) == Tail(todo)

\* exit statuses of the external command
Statuses == {0, 1, 2}

-----------------------------------------------------------------------------
(* run_task_on_codebase: the part that builds the dict `tasks` *)

all_accept_dir(tl) ==
    \A i \in 1..Len(tl) : TOOLS_DESCRIPTION[tl[i]].cli_accept_dir

\* tasks[tool].add(file) on the items of the dict
add_task(ts, k, f) ==
    IF \E i \in 1..Len(ts) : ts[i].tool = k
    THEN [i \in 1..Len(ts) |->
            IF ts[i].tool = k THEN [ts[i] EXCEPT !.files = @ \cup {f}] ELSE ts[i]]
    ELSE Append(ts, [tool |-> k, files |-> {f}])

RECURSIVE ToolLoop(_, _, _, _, _)
\* for tool in tools: if tool.accepts_file(file): tasks[tool].add(file)
ToolLoop(ts, f, tl, j, user_config) ==
    IF j > Len(tl) THEN ts
    ELSE ToolLoop(IF accepts_file(user_config[tl[j]], f) THEN add_task(ts, tl[j], f) ELSE ts,
                  f, tl, j + 1, user_config)

RECURSIVE FileLoop(_, _, _, _, _)
\* for file in files: ...
FileLoop(ts, fs, i, tl, user_config) ==
    IF i > Len(fs) THEN ts
    ELSE FileLoop(ToolLoop(ts, fs[i], tl, 1, user_config), fs, i + 1, tl, user_config)

\* files = copy.copy(src_others)
\* if not sources or (src_dirs and not accept_dir): files += git_ls_tree
files_for_tool(k, srcs, src_dirs, src_others, listing) ==
    src_others \o
    (IF srcs = <<>> \/ (src_dirs # <<>> /\ ~TOOLS_DESCRIPTION[k].cli_accept_dir)
     THEN listing ELSE <<>>)

RECURSIVE BuildLoop(_, _, _, _, _, _, _, _)
\* the loop `for tool in tools` that builds the tasks: every iteration binds
\* `files` and `tasks` anew, so the values of the last iteration remain
BuildLoop(i, tl, acc, srcs, src_dirs, src_others, listing, user_config) ==
    IF i > Len(tl) THEN acc
    ELSE LET fs == files_for_tool(tl[i], srcs, src_dirs, src_others, listing)
         IN BuildLoop(i + 1, tl,
                      [files |-> fs, tasks |-> FileLoop(<<>>, fs, 1, tl, user_config)],
                      srcs, src_dirs, src_others, listing, user_config)

\* the value given to git_ls_tree_required
git_ls_tree_needed(srcs, src_dirs, tl) ==
    IF srcs = <<>> THEN TRUE
    ELSE IF src_dirs # <<>> THEN ~all_accept_dir(tl)
    ELSE FALSE

-----------------------------------------------------------------------------
(* The dispatcher's inputs *)

LanguageChoices ==
    {[given |-> FALSE, list |-> <<>>],
     [given |-> TRUE, list |-> <<"c++">>],
     [given |-> TRUE, list |-> <<"python">>],
     [given |-> TRUE, list |-> <<"c++", "python">>],
     [given |-> TRUE, list |-> <<"C++">>]}

EnabledChoices == {ToolKeys, {"ClangFormat", "ClangTidy"}}

ExcludeChoices == {<<>>, <<RE_DIR_D>>}

\* the include pattern of a tool's section of the project configuration
IncludeOf(k) ==
    CASE k \in {"ClangFormat", "ClangTidy"} -> <<RE_CPP>>
      [] k = "CMakeFormat" -> <<RE_CMAKE>>
      [] OTHER -> <<RE_PY>>

ProjectChoices ==
    {[tools |-> en,
      user_config |-> [k \in ToolKeys |-> [include |-> IncludeOf(k), exclude |-> ex]]] :
        en \in EnabledChoices, ex \in ExcludeChoices}

TrackedChoices == {<<F_A, F_DB, F_DE, F_G>>, <<F_DB>>}

SourceChoices == SeqsUpTo({F_A, DIR_D, F_U}, MaxSources)

IdleFilter == [phase |-> "idle"]
IdleResolver == [phase |-> "idle"]
IdleYaml == [phase |-> "idle"]
IdleScript == [phase |-> "idle"]

\* no call of the dispatcher is made
DispatchIdle ==
    /\ task = "format"
    /\ languages = [given |-> FALSE, list |-> <<>>]
    /\ sources = <<>>
    /\ project = [tools |-> {}, user_config |-> <<>>]
    /\ repo = [tracked |-> <<>>, cap |-> 1]
    /\ pc = "idle"

DispatchLocalsInit ==
    /\ tools = <<>>
    /\ git_ls_tree_required = FALSE
    /\ git_ls_tree = <<>>
    /\ files = <<>>
    /\ tasks = <<>>
    /\ runs = <<>>
    /\ chunks = <<>>
    /\ run_errors = 0
    /\ invoked = <<>>
    /\ num_errors = 0

DispatchIdleInit == DispatchIdle /\ DispatchLocalsInit

\* a call of run_task_on_codebase is about to be made
Init ==
    /\ script = IdleScript
    /\ task \in Tasks
    /\ languages \in LanguageChoices
    /\ sources \in SourceChoices
    /\ project \in ProjectChoices
    /\ repo \in {[tracked |-> t, cap |-> c] : t \in TrackedChoices, c \in 1..MaxChunk}
    /\ pc = "start"
    /\ DispatchLocalsInit
    /\ flt = IdleFilter
    /\ yml = IdleYaml
    /\ res = IdleResolver

\* run_task_on_codebase up to the end of the loop that builds `tasks`
BuildTasks ==
    /\ pc = "start"
    /\ LET tl == tools_for_task(project.tools, task, languages)
           src_dirs == SelectIdx(sources, 1, {s \in Elems(sources) : isdir(s)})
           src_files == SelectIdx(sources, 1, {s \in Elems(sources) : ~isdir(s)})
           src_others == [i \in 1..Len(src_files) |-> join_cwd(src_files[i])]
           required == git_ls_tree_needed(sources, src_dirs, tl)
           listing == IF required THEN git_ls_tree_output(repo.tracked, src_dirs)
                      ELSE <<>>
           built == BuildLoop(1, tl, [files |-> <<>>, tasks |-> <<>>],
                              sources, src_dirs, src_others, listing,
                              project.user_config)
       IN /\ tools' = tl
          /\ IF tl = <<>>
             THEN \* if not tools: ... return 0
                  /\ pc' = "done"
                  /\ UNCHANGED <<git_ls_tree_required, git_ls_tree, files, tasks>>
             ELSE /\ pc' = "dispatch"
                  /\ git_ls_tree_required' = required
                  /\ git_ls_tree' = listing
                  /\ files' = built.files
                  /\ tasks' = built.tasks
    /\ UNCHANGED <<script, task, languages, sources, project, repo, runs, chunks,
                   run_errors, invoked, num_errors, flt, res, yml>>

\* for tool, tool_tasks in tasks.items(): tool.run(task, *tool_tasks, ...)
\* enters Tool.run; the set is unpacked in its iteration order
ToolRun ==
    /\ pc = "dispatch"
    /\ Len(runs) < Len(tasks)
    /\ \E order \in Perms(tasks[Len(runs) + 1].files) :
          /\ runs' = Append(runs, [tool |-> tasks[Len(runs) + 1].tool,
                                   files |-> order, returned |-> -1])
          /\ chunks' = chunkify(order, repo.cap)
    /\ run_errors' = 0
    /\ pc' = "tool_run"
    /\ UNCHANGED <<script, task, languages, sources, project, repo, tools,
                   git_ls_tree_required, git_ls_tree, files, tasks, invoked,
                   num_errors, flt, res, yml>>

\* one iteration of the loop of Tool.run: _run_chunk calls the external command
RunChunk ==
    /\ pc = "tool_run"
    /\ chunks # <<>>
    /\ \E status \in Statuses :
          /\ invoked' = Append(invoked, [run |-> Len(runs), tool |-> runs[Len(runs)].tool,
                                         files |-> Head(chunks), status |-> status])
          /\ run_errors' = run_errors + run_chunk_result(status)
          /\ chunks' = remaining_chunks(status, chunks)
    /\ UNCHANGED <<script, task, languages, sources, project, repo, pc, tools,
                   git_ls_tree_required, git_ls_tree, files, tasks, runs,
                   num_errors, flt, res, yml>>

\* Tool.run returns num_errors, which the caller adds to its own
ToolReturn ==
    /\ pc = "tool_run"
    /\ chunks = <<>>
    /\ runs' = [runs EXCEPT ![Len(runs)].returned = run_errors]
    /\ num_errors' = num_errors + run_errors
    /\ pc' = "dispatch"
    /\ UNCHANGED <<script, task, languages, sources, project, repo, tools,
                   git_ls_tree_required, git_ls_tree, files, tasks, chunks,
                   run_errors, invoked, flt, res, yml>>

\* return num_errors
Return ==
    /\ pc = "dispatch"
    /\ Len(runs) = Len(tasks)
    /\ pc' = "done"
    /\ UNCHANGED <<script, task, languages, sources, project, repo, tools,
                   git_ls_tree_required, git_ls_tree, files, tasks, runs, chunks,
                   run_errors, invoked, num_errors, flt, res, yml>>

Next == BuildTasks \/ ToolRun \/ RunChunk \/ ToolReturn \/ Return

Spec == Init /\ [][Next]_vars

-----------------------------------------------------------------------------
(* A lone call of Tool.run, on any argument list *)

RunArgChoices == SeqsUpTo({F_A, F_DB}, MaxRunFiles)

InitToolRun ==
    /\ script = IdleScript
    /\ task = "format"
    /\ languages = [given |-> TRUE, list |-> <<"c++">>]
    /\ sources = <<>>
    /\ project \in ProjectChoices
    /\ repo \in {[tracked |-> <<>>, cap |-> c] : c \in 1..MaxChunk}
    /\ tools = <<"ClangFormat">>
    /\ git_ls_tree_required = FALSE
    /\ git_ls_tree = <<>>
    /\ files = <<>>
    /\ invoked = <<>>
    /\ num_errors = 0
    /\ run_errors = 0
    /\ pc = "tool_run"
    /\ \E args \in RunArgChoices :
          /\ tasks = <<[tool |-> "ClangFormat", files |-> Elems(args)]>>
          /\ runs = <<[tool |-> "ClangFormat", files |-> args, returned |-> -1]>>
          /\ chunks = chunkify(args, repo.cap)
    /\ flt = IdleFilter
    /\ yml = IdleYaml
    /\ res = IdleResolver

NextToolRun == RunChunk \/ ToolReturn \/ Return

SpecToolRun == InitToolRun /\ [][NextToolRun]_vars

-----------------------------------------------------------------------------
(* Properties of the dispatcher *)

Failures(log) == Cardinality({i \in 1..Len(log) : log[i].status # 0})

RECURSIVE BatchesOfRun(_, _, _)
\* the batches of log, from index i on, that the r-th Tool.run call invoked
BatchesOfRun(log, i, r) ==
    IF i > Len(log) THEN <<>>
    ELSE (IF log[i].run = r THEN <<log[i]>> ELSE <<>>) \o BatchesOfRun(log, i + 1, r)

\* C1: the number a Tool.run call returns is the number of its batches whose
\* command ended with a non-zero status, and the number run_task_on_codebase
\* returns is the number of such batches over all the tools.
C1_FailureCount ==
    /\ \A r \in 1..Len(runs) :
          runs[r].returned # -1 =>
              runs[r].returned = Failures(BatchesOfRun(invoked, 1, r))
    /\ pc = "done" => num_errors = Failures(invoked)

C1_Witness ==
    /\ pc = "done"
    /\ num_errors = 1
    /\ Len(invoked) >= 2
    /\ \E i \in 1..Len(invoked) : invoked[i].status = 2 /\ Len(invoked[i].files) = 2

ExplicitFiles == {join_cwd(s) : s \in {x \in Elems(sources) : ~isdir(x)}}

CandidateFiles ==
    ExplicitFiles \cup (IF git_ls_tree_required THEN Elems(git_ls_tree) \ {<<>>} ELSE {})

InvokedOn(k) ==
    UNION {Elems(invoked[i].files) : i \in {j \in 1..Len(invoked) : invoked[j].tool = k}}

\* C2: when the call is over, every qualifying tool has been invoked on exactly
\* the candidate files it accepts, the candidate files being the explicit
\* non-directory sources plus the tracked files whenever they are enumerated.
C2_EveryToolGetsItsFiles ==
    pc = "done" =>
        \A k \in Elems(tools) :
            InvokedOn(k) = {f \in CandidateFiles : accepts_file(project.user_config[k], f)}

EnumerationCase ==
    \/ sources = <<>>
    \/ /\ \E s \in Elems(sources) : isdir(s)
       /\ \E k \in Elems(tools) : ~TOOLS_DESCRIPTION[k].cli_accept_dir

\* C3: with qualifying tools, the tracked files are listed exactly when no
\* explicit source is given or a source is a directory and a qualifying tool
\* cannot take directories; otherwise the candidate files are the explicit sources.
C3_EnumerationRule ==
    (pc # "start" /\ tools # <<>>) =>
        /\ (git_ls_tree # <<>>) <=> EnumerationCase
        /\ ~EnumerationCase => files = [i \in 1..Len(sources) |-> join_cwd(sources[i])]

RequestedLanguages ==
    IF languages.given THEN Elems(languages.list) ELSE supported_languages(task)

\* C4: tools_for_task yields, once each and in descriptor order, the enabled
\* tools that declare for the task a language of the requested list, the names
\* matching as in the docstring ('C++' requests the C++ tools); None requests
\* every language supported for the task.
C4_ToolsForTask ==
    pc # "start" =>
        tools = SelectIdx(ToolOrder, 1,
                          {k \in project.tools :
                              \E l \in Elems(TaskLanguages(k, task)) :
                                  l \in RequestedLanguages \/ Lower(l) \in RequestedLanguages})

PlannedBatches ==
    Concat([r \in 1..Len(runs) |->
              [j \in 1..Len(chunkify(runs[r].files, repo.cap)) |->
                  [tool |-> runs[r].tool, files |-> chunkify(runs[r].files, repo.cap)[j]]]])

\* C5: when the call is over, Tool.run has been called for every entry of
\* `tasks` and the batches invoked are all the batches of all these calls, in
\* order, whatever statuses the commands ended with.
C5_FailureNeverStops ==
    pc = "done" =>
        /\ Len(runs) = Len(tasks)
        /\ \A r \in 1..Len(runs) :
              runs[r].tool = tasks[r].tool /\ Elems(runs[r].files) = tasks[r].files
        /\ [i \in 1..Len(invoked) |-> [tool |-> invoked[i].tool, files |-> invoked[i].files]]
           = PlannedBatches

C5_Witness ==
    /\ pc = "done"
    /\ Len(runs) = 2
    /\ Len(invoked) >= 3
    /\ invoked[1].status # 0

\* C6: the batches a finished Tool.run call invoked are consecutive pieces of
\* its argument list: each holds from one to cli_max_num_files files, each but
\* the last holds cli_max_num_files, together they are the argument list, and
\* an empty argument list gives no batch.
C6_Batches ==
    \A r \in 1..Len(runs) :
        runs[r].returned # -1 =>
            LET b == BatchesOfRun(invoked, 1, r)
            IN /\ Concat([j \in 1..Len(b) |-> b[j].files]) = runs[r].files
               /\ \A j \in 1..Len(b) :
                     /\ Len(b[j].files) >= 1
                     /\ Len(b[j].files) <= repo.cap
                     /\ j < Len(b) => Len(b[j].files) = repo.cap
               /\ runs[r].files = <<>> => b = <<>>

C6_Witness ==
    /\ pc = "done"
    /\ Len(runs[1].files) = 3
    /\ repo.cap = 2
    /\ Len(invoked) = 2

-----------------------------------------------------------------------------
(* The file filter on any lists of patterns and any path *)

FilterPatterns == {RE_CPP, RE_PY, RE_DIR_D, RE_D}

FilterPaths == {F_A, F_DB, F_DE, F_U, DIR_D}

InitFilter ==
    /\ script = IdleScript
    /\ DispatchIdleInit
    /\ res = IdleResolver
    /\ yml = IdleYaml
    /\ \E ex \in SeqsUpTo(FilterPatterns, MaxPatterns),
          inc \in SeqsUpTo(FilterPatterns, MaxPatterns),
          f \in FilterPaths :
          flt = [phase |-> "input", excludes |-> ex, includes |-> inc, path |-> f,
                 rejected |-> FALSE, accepted |-> FALSE]

\* the filter of the CMake scripts and the filter of a tool are applied to the
\* same patterns and path
ApplyFilter ==
    /\ flt.phase = "input"
    /\ flt' = [flt EXCEPT
                 !.phase = "done",
                 !.rejected = make_file_filter(flt.excludes, flt.includes, flt.path),
                 !.accepted = accepts_file([exclude |-> flt.excludes,
                                            include |-> flt.includes], flt.path)]
    /\ UNCHANGED <<script, dispVars, res, yml>>

NextFilter == ApplyFilter

SpecFilter == InitFilter /\ [][NextFilter]_vars

FilterExcluded == \E i \in 1..Len(flt.excludes) : re_match(flt.excludes[i], flt.path)

FilterIncluded == \E i \in 1..Len(flt.includes) : re_match(flt.includes[i], flt.path)

\* C7: the filter keeps a path exactly when no exclude pattern matches it and
\* an include pattern matches it; make_file_filter answers True to reject and
\* accepts_file answers the opposite for the same patterns.
C7_FilterRule ==
    flt.phase = "done" =>
        /\ flt.accepted <=> (~FilterExcluded /\ FilterIncluded)
        /\ flt.rejected <=> ~(~FilterExcluded /\ FilterIncluded)
        /\ flt.accepted <=> ~flt.rejected

C7_Witness ==
    /\ flt.phase = "done"
    /\ FilterExcluded
    /\ FilterIncluded
    /\ flt.rejected
    /\ ~flt.accepted

-----------------------------------------------------------------------------
(* Versions and requirements *)

V_9_0_1 == <<9, 0, 1>>
V_13_0_0 == <<13, 0, 0>>
Versions == {V_9_0_1, V_13_0_0}

\* the command printed nothing the version pattern matches
NoVersion == <<>>

\* the decimal digits of n < 100, as code points
DecimalCodes(n) ==
    IF n < 10 THEN <<48 + n>> ELSE <<48 + (n \div 10), 48 + (n % 10)>>

\* the version as the string find_version returns, as code points ('.' is 46)
version_string(v) ==
    DecimalCodes(v[1]) \o <<46>> \o DecimalCodes(v[2]) \o <<46>> \o DecimalCodes(v[3])

RECURSIVE str_less(_, _)
\* a < b on Python strings: lexicographic on code points
str_less(a, b) ==
    IF a = <<>> THEN b # <<>>
    ELSE IF b = <<>> THEN FALSE
    ELSE IF Head(a) # Head(b) THEN Head(a) < Head(b)
    ELSE str_less(Tail(a), Tail(b))

\* the order of parsed versions, which the requirement test uses
version_less(v, w) ==
    \/ v[1] < w[1]
    \/ v[1] = w[1] /\ v[2] < w[2]
    \/ v[1] = w[1] /\ v[2] = w[2] /\ v[3] < w[3]

\* `version in requirement`: every clause [op, version] of the specifier holds
satisfies(v, specs) ==
    \A i \in 1..Len(specs) :
        CASE specs[i].op = ">=" -> ~version_less(v, specs[i].version)
          [] specs[i].op = "<" -> version_less(v, specs[i].version)
          [] OTHER -> v = specs[i].version

\* Tool.requirement: None unless the tool is a Python package
requirement(k, user_config) ==
    IF TOOLS_DESCRIPTION[k].pip_pkg
    THEN [none |-> FALSE, specs |-> user_config.version]
    ELSE [none |-> TRUE, specs |-> <<>>]

\* key=lambda tup: tup[1]: the candidates are compared by their version strings
key_less(a, b) == str_less(version_string(a.version), version_string(b.version))

RECURSIVE insert_sorted(_, _)
insert_sorted(x, srt) ==
    IF srt = <<>> THEN <<x>>
    ELSE IF key_less(x, Head(srt)) THEN <<x>> \o srt
    ELSE <<Head(srt)>> \o insert_sorted(x, Tail(srt))

RECURSIVE sorted_by_version(_)
\* sorted(paths, key=...): ascending and stable
sorted_by_version(seq) ==
    IF seq = <<>> THEN <<>>
    ELSE insert_sorted(seq[Len(seq)], sorted_by_version(SubSeq(seq, 1, Len(seq) - 1)))

-----------------------------------------------------------------------------
(* The file system and the environment the resolver searches.  A path is   *)
(* [dir, name]; fs maps a directory to its entries [name, x, ver] in the   *)
(* order the directory lists them; ver is what the file prints as version. *)

PATH == <<"D1", "D2">>
VENV_BIN == "VENV"
LS == <<"l", "s">>

LowerSeq ==
    <<"a", "b", "c", "d", "e", "f", "g", "h", "i", "j", "k", "l", "m",
      "n", "o", "p", "q", "r", "s", "t", "u", "v", "w", "x", "y", "z">>

UpperSeq ==
    <<"A", "B", "C", "D", "E", "F", "G", "H", "I", "J", "K", "L", "M",
      "N", "O", "P", "Q", "R", "S", "T", "U", "V", "W", "X", "Y", "Z">>

\* re.sub("[^0-9a-zA-Z_]", "_", program).upper()
env_variable(program) ==
    [i \in 1..Len(program) |->
        IF program[i] \in LowerLetters
        THEN UpperSeq[CHOOSE j \in 1..Len(LowerSeq) : LowerSeq[j] = program[i]]
        ELSE IF program[i] \in Elems(UpperSeq) \cup DigitChars \cup {"_"}
             THEN program[i]
             ELSE "_"]

RECURSIVE fnmatch(_, _)
\* the name matches the whole pattern
fnmatch(name, pat) ==
    IF pat = <<>> THEN name = <<>>
    ELSE IF Head(pat).star
         THEN \E k \in 0..Len(name) :
                 fnmatch(SubSeq(name, k + 1, Len(name)), Tail(pat))
         ELSE /\ name # <<>>
              /\ Head(name) \in Head(pat).chars
              /\ fnmatch(Tail(name), Tail(pat))

\* glob.glob leaves out the names that start with a dot unless the pattern does
glob_match(name, pat) ==
    /\ fnmatch(name, pat)
    /\ (name # <<>> /\ name[1] = ".") =>
           (pat # <<>> /\ ~pat[1].star /\ pat[1].chars = {"."})

path_exists(fs, dir, name) ==
    dir \in DOMAIN fs /\ \E i \in 1..Len(fs[dir]) : fs[dir][i].name = name

access_always(fs, dir, name) == TRUE

\* os.access(file, os.X_OK)
access_x_ok(fs, dir, name) ==
    dir \in DOMAIN fs /\ \E i \in 1..Len(fs[dir]) : fs[dir][i].name = name /\ fs[dir][i].x

RECURSIVE glob_hits(_, _, _, _)
\* the files glob.glob(os.path.join(path, pattern)) gives that pass the
\* execute test, from entry i of the directory on
glob_hits(fs, dir, pattern, i) ==
    IF dir \notin DOMAIN fs \/ i > Len(fs[dir]) THEN <<>>
    ELSE (IF glob_match(fs[dir][i].name, pattern) /\ access_x_ok(fs, dir, fs[dir][i].name)
          THEN <<[dir |-> dir, name |-> fs[dir][i].name]>> ELSE <<>>)
         \o glob_hits(fs, dir, pattern, i + 1)

\* one iteration of the loop `for path in paths` of where
where_in_path(fs, program, glob_patterns, dir) ==
    (IF path_exists(fs, dir, program) /\ access_x_ok(fs, dir, program)
     THEN <<[dir |-> dir, name |-> program]>> ELSE <<>>)
    \o Concat([i \in 1..Len(glob_patterns) |-> glob_hits(fs, dir, glob_patterns[i], 1)])

\* os.environ.get(env_variable, program): a value is [abs, dir, name]
environ_get(environ, program) ==
    IF env_variable(program) \in DOMAIN environ
    THEN environ[env_variable(program)]
    ELSE [abs |-> FALSE, dir |-> "", name |-> program]

\* where(program, glob_patterns, paths), as the list its generator yields
where(fs, environ, program, glob_patterns, paths) ==
    LET value == environ_get(environ, program)
        lookup == IF paths # <<>> THEN paths ELSE PATH
    IN IF value.abs
       THEN <<[dir |-> value.dir, name |-> value.name]>>
       ELSE Concat([i \in 1..Len(lookup) |->
                       where_in_path(fs, value.name, glob_patterns, lookup[i])])

-----------------------------------------------------------------------------
(* where on any program, patterns, lookup directories and environment *)

Slot(name, st) ==
    CASE st = "absent" -> <<>>
      [] st = "plain" -> <<[name |-> name, x |-> FALSE, ver |-> V_13_0_0]>>
      [] st = "exec" -> <<[name |-> name, x |-> TRUE, ver |-> V_13_0_0]>>
      [] st = "exec9" -> <<[name |-> name, x |-> TRUE, ver |-> V_9_0_1]>>
      [] st = "mute" -> <<[name |-> name, x |-> TRUE, ver |-> NoVersion]>>

WhereStates == {"absent", "plain", "exec"}

\* the directories D1 and D2 around the program p
WhereFileSystems(p) ==
    {("D1" :> (Slot(p, a) \o Slot(p \o <<"-", "9">>, b) \o Slot(LS, c))
      @@ "D2" :> (Slot(p, d) \o Slot(p \o <<"-", "1", "3">>, e))) :
        a \in WhereStates, b \in WhereStates, c \in WhereStates,
        d \in WhereStates, e \in WhereStates}

WhereCalls ==
    {[program |-> CLANG_FORMAT, glob_patterns |-> <<>>],
     [program |-> CLANG_FORMAT, glob_patterns |-> CLANG_FORMAT_GLOBS],
     [program |-> CLANG_FORMAT,
      glob_patterns |-> <<GlobOfString(CLANG_FORMAT \o <<"*">>)>>],
     [program |-> CLANG_TIDY, glob_patterns |-> CLANG_TIDY_GLOBS]}

WhereEnvironments(p) ==
    {<<>>,
     (env_variable(p) :> [abs |-> FALSE, dir |-> "", name |-> p \o <<"-", "9">>]),
     (env_variable(p) :> [abs |-> TRUE, dir |-> "OPT", name |-> p])}

InitWhere ==
    /\ script = IdleScript
    /\ DispatchIdleInit
    /\ flt = IdleFilter
    /\ yml = IdleYaml
    /\ \E c \in WhereCalls, ps \in {<<>>, <<"D1">>, <<"D2", "D1">>} :
       \E env \in WhereEnvironments(c.program), f \in WhereFileSystems(c.program) :
          res = [phase |-> "where", program |-> c.program,
                 glob_patterns |-> c.glob_patterns, paths |-> ps,
                 environ |-> env, fs |-> f, yielded |-> <<>>]

\* list(where(program, glob_patterns, paths))
CallWhere ==
    /\ res.phase = "where"
    /\ res' = [res EXCEPT
                 !.phase = "where_done",
                 !.yielded = where(res.fs, res.environ, res.program,
                                   res.glob_patterns, res.paths)]
    /\ UNCHANGED <<script, dispVars, flt, yml>>

NextWhere == CallWhere

SpecWhere == InitWhere /\ [][NextWhere]_vars

LookupDirs == IF res.paths # <<>> THEN Elems(res.paths) ELSE Elems(PATH)

\* the executable entries of the lookup directories named prog or matching a pattern
ExecutablesNamed(prog) ==
    {[dir |-> d, name |-> res.fs[d][i].name] :
        <<d, i>> \in {di \in LookupDirs \X (1..3) :
                        /\ di[2] <= Len(res.fs[di[1]])
                        /\ res.fs[di[1]][di[2]].x
                        /\ \/ res.fs[di[1]][di[2]].name = prog
                           \/ \E j \in 1..Len(res.glob_patterns) :
                                 glob_match(res.fs[di[1]][di[2]].name,
                                            res.glob_patterns[j])}}

\* C10 as stated: where yields exactly the executable entries of the lookup
\* directories whose name is the program name or matches a glob pattern.
C10_WhereExact ==
    res.phase = "where_done" => Elems(res.yielded) = ExecutablesNamed(res.program)

\* C10 amended: that holds when the environment variable named after the
\* program is unset; a relative value of the variable takes the place of the
\* program name, and an absolute value is yielded alone, whatever the lookup
\* directories hold.
C10_WhereExactUnlessForced ==
    res.phase = "where_done" =>
        LET value == environ_get(res.environ, res.program)
        IN IF value.abs
           THEN res.yielded = <<[dir |-> value.dir, name |-> value.name]>>
           ELSE Elems(res.yielded) = ExecutablesNamed(value.name)

C10_Witness ==
    /\ res.phase = "where_done"
    /\ res.environ = <<>>
    /\ \E i \in 1..Len(res.yielded) : res.yielded[i].name # res.program
    /\ \E d \in LookupDirs :
          path_exists(res.fs, d, res.program) /\ ~access_x_ok(res.fs, d, res.program)
    /\ \E d \in DOMAIN res.fs \ LookupDirs : access_x_ok(res.fs, d, res.program)

-----------------------------------------------------------------------------
(* ExecutableTool.configure.  The resolver state res holds the tool, its   *)
(* user configuration, the environment (fs, environ, the packages of the   *)
(* system interpreter and of the virtual environment) and the fields the   *)
(* call sets: _path, _version, and the exception it raised, if any.        *)

NoPath == [dir |-> "", name |-> <<>>]

\* the directories as the process sees them: the virtual environment's bin
\* directory holds the tool once its package is installed there
fs_view(r) ==
    r.fs @@ (VENV_BIN :>
               IF r.venv_pkg = NoVersion THEN <<>>
               ELSE <<[name |-> TOOLS_DESCRIPTION[r.tool].name, x |-> TRUE,
                       ver |-> r.venv_pkg]>>)

entry_of(fs, path) ==
    LET i == CHOOSE j \in 1..Len(fs[path.dir]) : fs[path.dir][j].name = path.name
    IN fs[path.dir][i]

\* find_version(path): [kind, version, ran]; ran tells that path was executed
find_version(fs, in_venv, k, path) ==
    IF ~path_exists(fs, path.dir, path.name)
    THEN [kind |-> "FileNotFoundError", version |-> NoVersion, ran |-> FALSE]
    ELSE IF TOOLS_DESCRIPTION[k].pip_pkg /\ in_venv /\ path.dir = VENV_BIN
    THEN [kind |-> "ok", version |-> entry_of(fs, path).ver, ran |-> FALSE]
    ELSE IF ~access_x_ok(fs, path.dir, path.name)
    THEN [kind |-> "PermissionError", version |-> NoVersion, ran |-> FALSE]
    ELSE IF entry_of(fs, path).ver = NoVersion
    THEN [kind |-> "RuntimeError", version |-> NoVersion, ran |-> TRUE]
    ELSE [kind |-> "ok", version |-> entry_of(fs, path).ver, ran |-> TRUE]

\* find_tool_in_path(search_paths): [kind, path, version, all_paths, executed]
find_tool_in_path(fs, environ, in_venv, k, user_config, search_paths) ==
    LET paths == where(fs, environ, TOOLS_DESCRIPTION[k].name,
                       TOOLS_DESCRIPTION[k].names_glob_patterns, search_paths)
        found == [i \in 1..Len(paths) |-> find_version(fs, in_venv, k, paths[i])]
        bad == {i \in 1..Len(paths) : found[i].kind # "ok"}
        stop == IF bad = {} THEN Len(paths) ELSE Least(bad)
        executed == AtIdx(paths, 1, {i \in 1..stop : found[i].ran})
        all_paths == [i \in 1..Len(paths) |->
                         [path |-> paths[i], version |-> found[i].version]]
        req == requirement(k, user_config)
        fit == AtIdx(all_paths, 1,
                     {i \in 1..Len(paths) : satisfies(all_paths[i].version, req.specs)})
        srt == sorted_by_version(fit)
        raise(e, ap) == [kind |-> e, path |-> NoPath, version |-> NoVersion,
                         all_paths |-> ap, executed |-> executed]
    IN IF paths = <<>> THEN raise("FileNotFoundError", <<>>)
       ELSE IF bad # {} THEN raise(found[Least(bad)].kind, <<>>)
       ELSE IF req.none THEN raise("TypeError", all_paths)
       ELSE IF srt = <<>> THEN raise("FileNotFoundError", all_paths)
       ELSE [kind |-> "ok", path |-> srt[Len(srt)].path,
             version |-> srt[Len(srt)].version,
             all_paths |-> all_paths, executed |-> executed]

\* BBPVEnv.is_requirement_met, on the interpreter the process runs
is_requirement_met(r, specs) ==
    LET have == IF r.in_venv THEN r.venv_pkg ELSE r.sys_pkg
    IN have # NoVersion /\ satisfies(have, specs)

extra_met(r) == IF r.in_venv THEN r.venv_extra ELSE r.sys_extra

raised(r, e) == [r EXCEPT !.phase = "raised", !.error = e]

search_done(r, f, sp) ==
    [r EXCEPT !._path = f.path, !._version = f.version, !.all_paths = f.all_paths,
              !.executed = r.executed \o f.executed, !.searched = sp]

\* the loop on user_config["requirements"]: ensure_requirement(req, restart=False)
install_requirements(r, pipx) ==
    IF r.user_config.requirements = <<>> \/ extra_met(r)
    THEN [r EXCEPT !.phase = "configured"]
    ELSE IF r.in_venv
         THEN IF pipx THEN [r EXCEPT !.phase = "configured", !.venv_extra = TRUE]
              ELSE raised(r, "CalledProcessError")
         ELSE [r EXCEPT !.phase = "restart"]

\* the second search, in the bin directory of the virtual environment
retry_in_venv(r, pipx) ==
    LET f == find_tool_in_path(fs_view(r), r.environ, r.in_venv, r.tool,
                               r.user_config, <<VENV_BIN>>)
        r2 == [search_done(r, f, <<VENV_BIN>>) EXCEPT !.attempt = "retry"]
    IN IF f.kind = "ok" THEN install_requirements(r2, pipx) ELSE raised(r2, f.kind)

\* ensure_requirement(self.requirement) and what follows it in the handler;
\* pip is the version pip install brings, NoVersion when pip fails
ensure_requirement(r, pip, pipx) ==
    LET req == requirement(r.tool, r.user_config)
    IN IF is_requirement_met(r, req.specs) THEN retry_in_venv(r, pipx)
       ELSE IF r.in_venv
            THEN IF pip = NoVersion THEN raised(r, "CalledProcessError")
                 ELSE [r EXCEPT !.phase = "restart", !.venv_pkg = pip]
            ELSE [r EXCEPT !.phase = "restart"]

\* ExecutableTool.configure
configure(r, pip, pipx) ==
    IF r.user_config.path # NoPath
    THEN LET v == find_version(fs_view(r), r.in_venv, r.tool, r.user_config.path)
             r2 == [r EXCEPT !._version = v.version,
                             !.executed = IF v.ran THEN r.executed \o <<r.user_config.path>>
                                          ELSE r.executed]
         IN IF v.kind = "ok" THEN install_requirements(r2, pipx) ELSE raised(r2, v.kind)
    ELSE LET forced == r.user_config.requirements # <<>>
             f == find_tool_in_path(fs_view(r), r.environ, r.in_venv, r.tool,
                                    r.user_config, <<>>)
             r2 == IF forced THEN r ELSE search_done(r, f, PATH)
         IN IF ~forced /\ f.kind = "ok" THEN install_requirements(r2, pipx)
            ELSE IF ~forced /\ f.kind # "FileNotFoundError" THEN raised(r2, f.kind)
            ELSE IF ~requirement(r.tool, r.user_config).none
                 THEN ensure_requirement(r2, pip, pipx)
                 ELSE raised(r2, "FileNotFoundError")

ResolveTools == {"ClangFormat", "ClangTidy", "Black"}

VersionSpecs ==
    {<<[op |-> ">=", version |-> <<9, 0, 0>>]>>,
     <<[op |-> ">=", version |-> <<13, 0, 0>>]>>}

ResolveFileSystems(p) ==
    {("D1" :> (Slot(p, a) \o Slot(p \o <<"-", "9">>, b) \o Slot(LS, c))
      @@ "D2" :> Slot(p, d)) :
        a \in {"absent", "plain", "exec", "exec9", "mute"},
        b \in {"absent", "exec", "exec9"},
        c \in {"absent", "exec"},
        d \in {"absent", "exec", "exec9"}}

InitResolve ==
    /\ script = IdleScript
    /\ DispatchIdleInit
    /\ flt = IdleFilter
    /\ yml = IdleYaml
    /\ \E k \in ResolveTools, vs \in VersionSpecs, extra \in BOOLEAN,
          userPath \in BOOLEAN, venv \in BOOLEAN :
       \E f \in ResolveFileSystems(TOOLS_DESCRIPTION[k].name),
          sp \in Versions \cup {NoVersion}, vp \in Versions \cup {NoVersion} :
          res = [phase |-> "configure", tool |-> k,
                 user_config |->
                     [path |-> IF userPath
                               THEN [dir |-> "D1", name |-> TOOLS_DESCRIPTION[k].name]
                               ELSE NoPath,
                      version |-> vs,
                      requirements |-> IF extra THEN <<"x">> ELSE <<>>],
                 environ |-> <<>>, fs |-> f, in_venv |-> venv,
                 sys_pkg |-> sp, venv_pkg |-> vp,
                 sys_extra |-> FALSE, venv_extra |-> FALSE,
                 _path |-> NoPath, _version |-> NoVersion, all_paths |-> <<>>,
                 executed |-> <<>>, searched |-> <<>>, attempt |-> "first",
                 error |-> "none"]

\* tool.configure(), up to its return, its exception or the os.execv of
\* restart_in_venv
Configure ==
    /\ res.phase = "configure"
    /\ \E pipx \in BOOLEAN :
       \E pip \in {NoVersion} \cup {v \in Versions : satisfies(v, res.user_config.version)} :
          res' = configure(res, pip, pipx)
    /\ UNCHANGED <<script, dispVars, flt, yml>>

\* os.execv(self.interpreter, ...): the command starts again in the virtual
\* environment, which restart_in_venv created if it was missing
RestartInVenv ==
    /\ res.phase = "restart"
    /\ res' = [res EXCEPT !.phase = "configure", !.in_venv = TRUE,
                          !._path = NoPath, !._version = NoVersion,
                          !.all_paths = <<>>, !.searched = <<>>,
                          !.attempt = "first"]
    /\ UNCHANGED <<script, dispVars, flt, yml>>

NextResolve == Configure \/ RestartInVenv

SpecResolve == InitResolve /\ [][NextResolve]_vars

\* find_tool_in_path returned a candidate in the call that configured the tool
Bound == res.phase = "configured" /\ res.user_config.path = NoPath

\* C8: the candidate find_tool_in_path returns satisfies the requirement and
\* no satisfying candidate of the same search has a higher version, in
\* version order.
C8_HighestSatisfying ==
    Bound =>
        /\ satisfies(res._version, res.user_config.version)
        /\ \A i \in 1..Len(res.all_paths) :
              satisfies(res.all_paths[i].version, res.user_config.version)
                  => ~version_less(res._version, res.all_paths[i].version)

\* the exceptions that come from the environment misbehaving: a candidate
\* that prints no version, a failing pip install
EnvironmentFailures == {"RuntimeError", "CalledProcessError"}

\* C9: without a user path, and failures of the environment set aside,
\* configure ends either bound to an executable whose version satisfies the
\* tool's requirement or with the 'tool not found' error; a pip-installable
\* tool is bound by the retry only inside the bin directory of the virtual
\* environment and the error comes from that retry.
C9_ConfigureOutcome ==
    /\ res.phase \in {"configured", "raised"}
    /\ res.user_config.path = NoPath
    /\ res.error \notin EnvironmentFailures
    => /\ res.phase = "raised" =>
              /\ res.error = "FileNotFoundError"
              /\ TOOLS_DESCRIPTION[res.tool].pip_pkg =>
                    res.attempt = "retry" /\ res.searched = <<VENV_BIN>>
       /\ res.phase = "configured" =>
              /\ access_x_ok(fs_view(res), res._path.dir, res._path.name)
              /\ entry_of(fs_view(res), res._path).ver = res._version
              /\ satisfies(res._version,
                           requirement(res.tool, res.user_config).specs)
              /\ res.attempt = "retry" => res._path.dir = VENV_BIN

-----------------------------------------------------------------------------
(* Discovery of clang-format in one lookup directory, with the patterns of *)
(* its descriptor: the directory of test_where, every file of it absent,   *)
(* present without execute permission, or executable.                      *)

BIN_DIR == "BIN"

CF_13 == CLANG_FORMAT \o <<"-", "1", "3">>
CF_14 == CLANG_FORMAT \o <<"-", "1", "4">>
CF_MP_13 == CLANG_FORMAT \o <<"-", "m", "p", "-", "1", "3">>
CF_MP_14 == CLANG_FORMAT \o <<"-", "m", "p", "-", "1", "4">>
CF_DIFF == CLANG_FORMAT \o <<"-", "d", "i", "f", "f">>
CF_DIFF_PY == CLANG_FORMAT \o <<"-", "d", "i", "f", "f", ".", "p", "y">>
CF_14_DIFF == CLANG_FORMAT \o <<"-", "1", "4", "-", "d", "i", "f", "f">>

\* the names test_where touches, in the order it creates them
TestWhereNames ==
    <<CLANG_FORMAT, CF_13, CF_14, CF_MP_13, CF_MP_14, CF_DIFF_PY, CF_14_DIFF, CF_DIFF>>

\* clang-format and its versioned variants
ClangFormatVariants == {CLANG_FORMAT, CF_13, CF_14, CF_MP_13, CF_MP_14}

InitDiscovery ==
    /\ script = IdleScript
    /\ DispatchIdleInit
    /\ flt = IdleFilter
    /\ yml = IdleYaml
    /\ \E st \in [1..Len(TestWhereNames) -> WhereStates] :
          res = [phase |-> "where", program |-> CLANG_FORMAT,
                 glob_patterns |-> TOOLS_DESCRIPTION["ClangFormat"].names_glob_patterns,
                 paths |-> <<BIN_DIR>>, environ |-> <<>>,
                 fs |-> (BIN_DIR :> Concat([i \in 1..Len(TestWhereNames) |->
                                               Slot(TestWhereNames[i], st[i])])),
                 yielded |-> <<>>]

NextDiscovery == CallWhere

SpecDiscovery == InitDiscovery /\ [][NextDiscovery]_vars

\* the executable files of the directory among the given names
ExecutableAmong(names) ==
    {[dir |-> BIN_DIR, name |-> n] : n \in {m \in names : access_x_ok(res.fs, BIN_DIR, m)}}

\* C11: with the patterns of the clang-format descriptor, discovery in a
\* lookup directory returns exactly the executable files named clang-format
\* or a versioned variant of it: no non-executable variant and no -diff helper.
C11_ClangFormatDiscovery ==
    res.phase = "where_done" =>
        Elems(res.yielded) = ExecutableAmong(ClangFormatVariants)

-----------------------------------------------------------------------------
(* The environment variable named after the tool holds an absolute path:   *)
(* which, where and configure in that environment.                         *)

\* which(program, paths): the first location, NoPath for None
which(fs, environ, program, paths) ==
    LET value == environ_get(environ, program)
        lookup == IF paths # <<>> THEN paths ELSE PATH
        hits == {i \in 1..Len(lookup) :
                    /\ path_exists(fs, lookup[i], value.name)
                    /\ access_x_ok(fs, lookup[i], value.name)}
    IN IF value.abs THEN [dir |-> value.dir, name |-> value.name]
       ELSE IF hits = {} THEN NoPath
       ELSE [dir |-> lookup[Least(hits)], name |-> value.name]

OPT_DIR == "OPT"

\* the path the variable holds for tool k
ForcedPath(k) == [dir |-> OPT_DIR, name |-> TOOLS_DESCRIPTION[k].name]

ForcedFileSystems(p) ==
    {("D1" :> Slot(p, a) @@ "D2" :> <<>> @@ OPT_DIR :> Slot(p, b)) :
        a \in {"absent", "exec"},
        b \in {"absent", "plain", "exec", "exec9", "mute"}}

InitForced ==
    /\ script = IdleScript
    /\ DispatchIdleInit
    /\ flt = IdleFilter
    /\ yml = IdleYaml
    /\ \E k \in ResolveTools, vs \in VersionSpecs, extra \in BOOLEAN,
          userPath \in BOOLEAN, venv \in BOOLEAN :
       \E f \in ForcedFileSystems(TOOLS_DESCRIPTION[k].name),
          sp \in Versions \cup {NoVersion}, vp \in Versions \cup {NoVersion} :
          res = [phase |-> "lookup", tool |-> k,
                 user_config |->
                     [path |-> IF userPath
                               THEN [dir |-> "D1", name |-> TOOLS_DESCRIPTION[k].name]
                               ELSE NoPath,
                      version |-> vs,
                      requirements |-> IF extra THEN <<"x">> ELSE <<>>],
                 environ |-> (env_variable(TOOLS_DESCRIPTION[k].name) :>
                                 [abs |-> TRUE, dir |-> OPT_DIR,
                                  name |-> TOOLS_DESCRIPTION[k].name]),
                 fs |-> f, in_venv |-> venv,
                 sys_pkg |-> sp, venv_pkg |-> vp,
                 sys_extra |-> FALSE, venv_extra |-> FALSE,
                 _path |-> NoPath, _version |-> NoVersion, all_paths |-> <<>>,
                 executed |-> <<>>, searched |-> <<>>, attempt |-> "first",
                 error |-> "none",
                 which_result |-> NoPath, where_result |-> <<>>]

\* which(name) and list(where(name, names_glob_patterns)) for the tool
Lookup ==
    /\ res.phase = "lookup"
    /\ res' = [res EXCEPT
                 !.phase = "configure",
                 !.which_result =
                     which(fs_view(res), res.environ, TOOLS_DESCRIPTION[res.tool].name, <<>>),
                 !.where_result =
                     where(fs_view(res), res.environ, TOOLS_DESCRIPTION[res.tool].name,
                           TOOLS_DESCRIPTION[res.tool].names_glob_patterns, <<>>)]
    /\ UNCHANGED <<script, dispVars, flt, yml>>

NextForced == Lookup \/ Configure \/ RestartInVenv

SpecForced == InitForced /\ [][NextForced]_vars

\* the forced path is an executable that prints a version, and the version
\* satisfies the requirement of the tool, if it has one
ForcedPathUsable ==
    /\ access_x_ok(res.fs, OPT_DIR, TOOLS_DESCRIPTION[res.tool].name)
    /\ entry_of(res.fs, ForcedPath(res.tool)).ver # NoVersion
    /\ satisfies(entry_of(res.fs, ForcedPath(res.tool)).ver,
                 requirement(res.tool, res.user_config).specs)

\* C12: when the variable named after the tool holds an absolute path, which
\* and where return exactly that path, and configure (no user path, the
\* forced path usable, pip not failing) ends with the tool bound to it.
C12_ForcedPath ==
    /\ res.phase # "lookup" =>
          /\ res.which_result = ForcedPath(res.tool)
          /\ res.where_result = <<ForcedPath(res.tool)>>
    /\ /\ res.phase \in {"configured", "raised"}
       /\ res.user_config.path = NoPath
       /\ ForcedPathUsable
       /\ res.error # "CalledProcessError"
       => res.phase = "configured" /\ res._path = ForcedPath(res.tool)

-----------------------------------------------------------------------------
(* The value of the 'Checks' key of a clang-tidy configuration: a string,  *)
(* kept as the sequence of its characters.  A YAML value is [t, v]: t is   *)
(* "none" for None, "str" for a scalar (v its characters) and "map" for a  *)
(* nested mapping (v its items).                                           *)

NoneValue == [t |-> "none", v |-> <<>>]
StrValue(chars) == [t |-> "str", v |-> chars]
MapValue(items) == [t |-> "map", v |-> items]

RECURSIVE split_from(_, _, _)
\* str.split(","), from character i on, cur being the piece read so far
split_from(str, i, cur) ==
    IF i > Len(str) THEN <<cur>>
    ELSE IF str[i] = "," THEN <<cur>> \o split_from(str, i + 1, <<>>)
    ELSE split_from(str, i + 1, Append(cur, str[i]))

split(str) == split_from(str, 1, <<>>)

RECURSIVE strip(_)
\* str.strip(), the blank being the only white space of the model
strip(str) ==
    IF str = <<>> THEN <<>>
    ELSE IF Head(str) = " " THEN strip(Tail(str))
    ELSE IF str[Len(str)] = " " THEN strip(SubSeq(str, 1, Len(str) - 1))
    ELSE str

RECURSIVE join(_)
\* ",".join(list)
join(list) ==
    IF list = <<>> THEN <<>>
    ELSE IF Len(list) = 1 THEN list[1]
    ELSE list[1] \o <<",">> \o join(Tail(list))

startswith_dash(check) == check # <<>> /\ check[1] = "-"

\* drop_matching with the arguments of fnmatch exchanged
drop_matched_by(orig_checks, pattern) ==
    AtIdx(orig_checks, 1,
          {i \in 1..Len(orig_checks) : ~fnmatch(pattern, GlobOfString(orig_checks[i]))})

append_only(orig_checks, new_check) == Append(orig_checks, new_check)

prepend_check(orig_checks, new_check) == <<new_check>> \o orig_checks

keep_all(orig_checks, pattern) == orig_checks

\* [check for check in orig_checks if not fnmatch(check, pattern)]
drop_matching(orig_checks, pattern) ==
    AtIdx(orig_checks, 1,
          {i \in 1..Len(orig_checks) : ~fnmatch(orig_checks[i], GlobOfString(pattern))})

\* one iteration of `for new_check in new_checks`
merge_one_check(orig_checks, new_check) ==
    IF startswith_dash(new_check)
    THEN Append(drop_matching(drop_matching(orig_checks, Tail(new_check)), new_check),
                new_check)
    ELSE Append(drop_matching(drop_matching(orig_checks, <<"-">> \o new_check), new_check),
                new_check)

RECURSIVE merge_checks_loop(_, _, _)
merge_checks_loop(orig_checks, new_checks, i) ==
    IF i > Len(new_checks) THEN orig_checks
    ELSE merge_checks_loop(merge_one_check(orig_checks, new_checks[i]), new_checks, i + 1)

\* ClangTidy.merge_clang_tidy_checks(orig_checks, new_checks), on values
merge_clang_tidy_checks(orig_checks, new_checks) ==
    IF orig_checks = NoneValue THEN new_checks
    ELSE LET orig == [i \in 1..Len(split(orig_checks.v)) |-> strip(split(orig_checks.v)[i])]
             new == [i \in 1..Len(split(new_checks.v)) |-> strip(split(new_checks.v)[i])]
         IN StrValue(join(merge_checks_loop(orig, new, 1)))

-----------------------------------------------------------------------------
(* merge_yaml_files / do_merge_yaml.  A file is [exists, mtime, content];  *)
(* a content is [kind, map]: kind "dict" with the mapping, or "list",      *)
(* "null" (an empty document) or "invalid" (yaml.safe_load raises).        *)

\* the order in which the items of a mapping are visited
KeyOrder == <<"Checks", "Key">>

\* the `transformers` argument the callers pass: none (clang-format and
\* cmake-format), dict(Checks=merge_clang_tidy_checks) (cpplib, clang-tidy)
\* and the function itself (config_yaml_transformers of ClangTidy)
TransformersNone == [kind |-> "dict", keys |-> {}]
TransformersChecks == [kind |-> "dict", keys |-> {"Checks"}]
TransformersMethod == [kind |-> "method", keys |-> {}]

\* data.get(key)
data_get(data, key) == IF key \in DOMAIN data THEN data[key] ELSE NoneValue

\* data[key] = value: the value stored takes the place of the one data held
replace_value(old, new) == new

RECURSIVE merge_items(_, _, _, _)
\* for key, value in content.items(): acc is [data, succeeded, raised]
merge_items(acc, map, transformers, i) ==
    IF i > Len(KeyOrder) \/ acc.raised # "none" THEN acc
    ELSE IF KeyOrder[i] \notin DOMAIN map THEN merge_items(acc, map, transformers, i + 1)
    ELSE IF transformers.kind = "method"
    THEN [acc EXCEPT !.raised = "AttributeError"]
    ELSE LET key == KeyOrder[i]
             value == IF key \in transformers.keys
                      THEN merge_clang_tidy_checks(data_get(acc.data, key), map[key])
                      ELSE replace_value(data_get(acc.data, key), map[key])
         IN merge_items([acc EXCEPT !.data = (key :> value) @@ acc.data],
                        map, transformers, i + 1)

RECURSIVE merge_files(_, _, _, _)
\* for file in ins
merge_files(acc, ins, transformers, i) ==
    IF i > Len(ins) \/ acc.raised # "none" THEN acc
    ELSE IF ins[i].content.kind = "invalid"
    THEN [acc EXCEPT !.raised = "YAMLError"]
    ELSE IF ins[i].content.kind # "dict"
    THEN merge_files([acc EXCEPT !.succeeded = FALSE], ins, transformers, i + 1)
    ELSE merge_files(merge_items(acc, ins[i].content.map, transformers, 1),
                     ins, transformers, i + 1)

Max(a, b) == IF a >= b THEN a ELSE b

RECURSIVE max_mtime(_)
max_mtime(ins) ==
    IF Len(ins) = 1 THEN ins[1].mtime ELSE Max(ins[1].mtime, max_mtime(Tail(ins)))

\* not os.path.exists(out) or getmtime(out) < max(getmtime(f) for f in ins)
outdated(out, ins) == ~out.exists \/ out.mtime < max_mtime(ins)

\* merge_yaml_files(*ins, out, transformers=...): [succeeded, raised, out],
\* out being the output file afterwards; a write makes it newer than all
merge_yaml_files(ins, out, transformers) ==
    IF ~outdated(out, ins)
    THEN [succeeded |-> TRUE, raised |-> "none", out |-> out, written |-> FALSE]
    ELSE LET acc == merge_files([data |-> <<>>, succeeded |-> TRUE, raised |-> "none"],
                                ins, transformers, 1)
         IN IF acc.raised = "none" /\ acc.succeeded
            THEN [succeeded |-> TRUE, raised |-> "none", written |-> TRUE,
                  out |-> [exists |-> TRUE,
                           mtime |-> 1 + Max(max_mtime(ins),
                                             IF out.exists THEN out.mtime ELSE 0),
                           content |-> [kind |-> "dict", map |-> acc.data]]]
            ELSE [succeeded |-> FALSE, raised |-> acc.raised, out |-> out,
                  written |-> FALSE]

FOO_STAR == <<"f", "o", "o", "-", "*">>
BAR_PIKA == <<"b", "a", "r", "-", "p", "i", "k", "a">>
BAR_FOO == <<"b", "a", "r", "-", "f", "o", "o">>
BAR_STAR == <<"b", "a", "r", "-", "*">>
Neg(check) == <<"-">> \o check

\* 'foo-*,bar-pika,-bar-foo', the checks of test_clang_tidy_conf_merger
ORIG_CHECKS == join(<<FOO_STAR, BAR_PIKA, Neg(BAR_FOO)>>)

\* the values the files of the model give to a key
ChecksValues == {StrValue(ORIG_CHECKS), StrValue(Neg(BAR_STAR))}

KeyValues ==
    {StrValue(<<"1">>),
     MapValue(<< <<"x", <<"1">> >>, <<"y", <<"2">> >> >>),
     MapValue(<< <<"x", <<"3">> >> >>)}

\* the mappings a file may hold
Mappings ==
    {<<>>} \cup {("Checks" :> c) : c \in ChecksValues}
           \cup {("Key" :> k) : k \in KeyValues}
           \cup {("Checks" :> c) @@ ("Key" :> k) : c \in ChecksValues, k \in KeyValues}

Contents ==
    {[kind |-> "dict", map |-> m] : m \in Mappings}
    \cup {[kind |-> k, map |-> <<>>] : k \in {"list", "null", "invalid"}}

NoFile == [exists |-> FALSE, mtime |-> 0, content |-> [kind |-> "null", map |-> <<>>]]

\* the modification times of the model are 1..MaxTime
MaxTime == 2

InitMerge ==
    /\ script = IdleScript
    /\ DispatchIdleInit
    /\ flt = IdleFilter
    /\ res = IdleResolver
    /\ \E c1 \in Contents, c2 \in Contents, t1 \in 1..MaxTime, t2 \in 1..MaxTime,
          tr \in {TransformersNone, TransformersChecks, TransformersMethod} :
       \E o \in {NoFile} \cup {[exists |-> TRUE, mtime |-> t,
                                content |-> [kind |-> "dict", map |-> <<>>]] :
                                  t \in 1..MaxTime} :
          yml = [phase |-> "merge",
                 ins |-> <<[exists |-> TRUE, mtime |-> t1, content |-> c1],
                           [exists |-> TRUE, mtime |-> t2, content |-> c2]>>,
                 out |-> o, before |-> o, transformers |-> tr,
                 succeeded |-> TRUE, raised |-> "none", written |-> FALSE]

\* merge_yaml_files(default, delta, out, transformers=...)
MergeYaml ==
    /\ yml.phase = "merge"
    /\ LET r == merge_yaml_files(yml.ins, yml.out, yml.transformers)
       IN yml' = [yml EXCEPT !.phase = "merged", !.out = r.out,
                             !.succeeded = r.succeeded, !.raised = r.raised,
                             !.written = r.written]
    /\ UNCHANGED <<script, dispVars, flt, res>>

NextMerge == MergeYaml

SpecMerge == InitMerge /\ [][NextMerge]_vars

Merged == yml.phase = "merged"

AllMappings == \A i \in 1..Len(yml.ins) : yml.ins[i].content.kind = "dict"

\* the output is missing or older than at least one input
Stale == ~yml.before.exists \/ \E i \in 1..Len(yml.ins) : yml.before.mtime < yml.ins[i].mtime

Untouched == yml.out = yml.before /\ ~yml.written

Rewritten ==
    /\ yml.written
    /\ yml.out.exists
    /\ \A i \in 1..Len(yml.ins) : yml.out.mtime > yml.ins[i].mtime

\* C13: an output that exists and is not older than any input (equal times
\* included) is left untouched; an output that is missing or older than an
\* input is rewritten when both inputs parse into mappings, so that with such
\* inputs the output is untouched only if it was up to date.
C13_Freshness ==
    Merged =>
        /\ ~Stale => Untouched
        /\ Stale /\ AllMappings => Rewritten
        /\ Untouched /\ AllMappings => ~Stale

\* the value the merge is to give to key k, d being the default mapping and
\* c the delta mapping
ExpectedValue(k, d, c) ==
    IF k \notin DOMAIN c THEN d[k]
    ELSE IF k \in yml.transformers.keys \/ (yml.transformers.kind = "method" /\ k = "Checks")
         THEN merge_clang_tidy_checks(IF k \in DOMAIN d THEN d[k] ELSE NoneValue, c[k])
         ELSE c[k]

\* C14: when the merge regenerates the output (it is stale and both inputs
\* are mappings), the mapping written has the keys of both files, a key of
\* the delta file holding the registered merge function applied to (default
\* value or none, delta value), or the delta value outright when no function
\* is registered for it, and a key of the default file alone its value.
C14_MergedMapping ==
    Merged /\ Stale /\ AllMappings =>
        LET d == yml.ins[1].content.map
            c == yml.ins[2].content.map
        IN /\ yml.written
           /\ yml.out.content.kind = "dict"
           /\ DOMAIN yml.out.content.map = DOMAIN d \cup DOMAIN c
           /\ \A k \in DOMAIN d \cup DOMAIN c :
                 yml.out.content.map[k] = ExpectedValue(k, d, c)

\* some input is no mapping at its top level, and every input is valid YAML
SomeInputMalformed ==
    /\ \E i \in 1..Len(yml.ins) : yml.ins[i].content.kind \in {"list", "null"}
    /\ \A i \in 1..Len(yml.ins) : yml.ins[i].content.kind # "invalid"

\* C15: when a merge is due and the top level of an input is not a mapping,
\* whichever input it is, the call returns failure without raising and the
\* output file is neither created nor modified.
C15_MalformedInput ==
    Merged /\ Stale /\ SomeInputMalformed =>
        /\ ~yml.succeeded
        /\ yml.raised = "none"
        /\ Untouched

-----------------------------------------------------------------------------
(* Tool.prepare_config.  The configuration files of a tool are [tracked,   *)
(* config, custom, bbp]: config is the file at the root of the project     *)
(* (tracked by git or not), custom the file of the project's changes, bbp  *)
(* the default file this repository ships.                                 *)

\* the tools whose descriptor has a config_file
ConfigTools == {"ClangFormat", "CMakeFormat", "ClangTidy"}

\* self.config.get("config_yaml_transformers")
config_yaml_transformers(k) ==
    IF k = "ClangTidy" THEN TransformersMethod ELSE TransformersNone

\* shutil.copy(bbp_config_f, config_f): the copy is newer than both files
copy_file(from, to) ==
    [exists |-> TRUE,
     mtime |-> 1 + Max(from.mtime, IF to.exists THEN to.mtime ELSE 0),
     content |-> from.content]

always_copy(k, f) ==
    [files |-> [f EXCEPT !.config = copy_file(f.bbp, f.config)], raised |-> "none"]

\* Tool.prepare_config of tool k on the files f: [files, raised]
prepare_config(k, f) ==
    IF f.tracked /\ f.config.exists
    THEN [files |-> f, raised |-> "none"]
    ELSE IF f.custom.exists
    THEN LET build_file == \/ ~f.config.exists
                           \/ f.config.mtime < Max(f.config.mtime, f.custom.mtime)
             r == merge_yaml_files(<<f.bbp, f.custom>>, f.config,
                                   config_yaml_transformers(k))
         IN IF build_file
            THEN [files |-> [f EXCEPT !.config = r.out], raised |-> r.raised]
            ELSE [files |-> f, raised |-> "none"]
    ELSE IF ~f.config.exists \/ f.config.mtime < f.bbp.mtime
    THEN [files |-> [f EXCEPT !.config = copy_file(f.bbp, f.config)], raised |-> "none"]
    ELSE [files |-> f, raised |-> "none"]

RECURSIVE prepare_configs(_, _, _)
\* [tool.prepare_config() for tool in tools if "config_file" in tool.config]:
\* st is [files: tool -> files, raised]
prepare_configs(tl, i, st) ==
    IF i > Len(tl) \/ st.raised # "none" THEN st
    ELSE IF tl[i] \notin ConfigTools THEN prepare_configs(tl, i + 1, st)
    ELSE LET r == prepare_config(tl[i], st.files[tl[i]])
         IN prepare_configs(tl, i + 1,
                            [files |-> [st.files EXCEPT ![tl[i]] = r.files],
                             raised |-> r.raised])

BBP_CONFIG ==
    [exists |-> TRUE, mtime |-> 1,
     content |-> [kind |-> "dict",
                  map |-> ("Checks" :> StrValue(ORIG_CHECKS))
                          @@ ("Key" :> StrValue(<<"1">>))]]

CustomChoices ==
    {NoFile} \cup
    {[exists |-> TRUE, mtime |-> t, content |-> c] :
        t \in 1..MaxTime,
        c \in {[kind |-> "dict", map |-> ("Checks" :> StrValue(Neg(BAR_STAR)))],
               [kind |-> "list", map |-> <<>>],
               [kind |-> "null", map |-> <<>>]}}

ConfigChoices ==
    {NoFile} \cup
    {[exists |-> TRUE, mtime |-> t, content |-> [kind |-> "dict", map |-> <<>>]] :
        t \in 1..MaxTime}

FilesChoices ==
    {[tracked |-> tr, config |-> c, custom |-> cu, bbp |-> BBP_CONFIG] :
        tr \in BOOLEAN, c \in ConfigChoices, cu \in CustomChoices}

\* a call of run_task_on_codebase is about to be made, every tool of the
\* project with its user-given path
InitPrepare ==
    /\ script = IdleScript
    /\ task \in Tasks
    /\ languages \in {[given |-> TRUE, list |-> <<"c++">>],
                      [given |-> TRUE, list |-> <<"c++", "python">>]}
    /\ sources \in {<<>>, <<F_A>>}
    /\ project \in ProjectChoices
    /\ repo = [tracked |-> <<F_A, F_DB, F_DE, F_G>>, cap |-> MaxChunk]
    /\ pc = "configure"
    /\ DispatchLocalsInit
    /\ flt = IdleFilter
    /\ res = IdleResolver
    /\ \E f \in FilesChoices :
          yml = [phase |-> "files", files |-> [k \in ConfigTools |-> f],
                 before |-> f, raised |-> "none"]

\* tools = list(self.tools_for_task(task, languages)), the calls of configure
\* and the calls of prepare_config, which an exception ends
PrepareConfigs ==
    /\ pc = "configure"
    /\ LET tl == tools_for_task(project.tools, task, languages)
           st == prepare_configs(tl, 1, [files |-> yml.files, raised |-> "none"])
       IN /\ tools' = tl
          /\ yml' = [yml EXCEPT !.phase = "prepared", !.files = st.files,
                                !.raised = st.raised]
          /\ pc' = IF st.raised = "none" THEN "start" ELSE "raised"
    /\ UNCHANGED <<script, task, languages, sources, project, repo, git_ls_tree_required,
                   git_ls_tree, files, tasks, runs, chunks, run_errors, invoked,
                   num_errors, flt, res>>

NextPrepare ==
    PrepareConfigs \/ BuildTasks \/ ToolRun \/ RunChunk \/ ToolReturn \/ Return

SpecPrepare == InitPrepare /\ [][NextPrepare]_vars

\* the changes file of a qualifying tool is not a mapping, and prepare_config
\* has to read it: the config file is untracked or missing, and missing or
\* older than the changes file
MalformedChangesFile ==
    /\ \E i \in 1..Len(tools) : tools[i] \in ConfigTools
    /\ yml.before.custom.exists
    /\ yml.before.custom.content.kind \in {"list", "null"}
    /\ ~yml.before.tracked \/ ~yml.before.config.exists
    /\ ~yml.before.config.exists \/ yml.before.config.mtime < yml.before.custom.mtime

\* C16: when the changes file of a qualifying tool is malformed, the run is
\* aborted before any external tool is invoked on any file.
C16_MalformedConfigAborts ==
    MalformedChangesFile => invoked = <<>>

\* no enabled tool declares, for the task, a language of the requested list
\* (the names compared without regard to case)
NoToolForRequest ==
    /\ languages.given
    /\ \A k \in project.tools : \A l \in Elems(TaskLanguages(k, task)) :
          \A r \in Elems(languages.list) : Lower(l) # Lower(r)

\* C17: a request for a task and languages that no enabled tool supports never
\* ends as a run that reports zero failures.
C17_UnsupportedRequestFails ==
    NoToolForRequest => ~(pc = "done" /\ num_errors = 0)

-----------------------------------------------------------------------------
(* BBPProject._merge_user_config_global: the user configuration merged     *)
(* onto the defaults.  A configuration is a function from keys to values;  *)
(* a value is a string, an integer, a boolean or a nested mapping.         *)

IntValue(n) == [t |-> "int", v |-> n]
BoolValue(n) == [t |-> "bool", v |-> n]

\* isinstance(value, dict)
is_dict(value) == value.t = "map"

\* conf[key] == user_conf[key]: True == 1 in Python, a string equals no number
py_eq(a, b) ==
    IF a.t \in {"int", "bool"} /\ b.t \in {"int", "bool"}
    THEN a.v = b.v
    ELSE a.t = b.t /\ a.v = b.v

same_type_any(a, b) == TRUE

\* type(conf[key]) == type(user_conf[key])
same_type(a, b) == a.t = b.t

\* the order in which `for key in user_conf` meets the keys
UserKeyOrder ==
    <<"a", "b", "k", "tools", "global", "ClangFormat", "Black", "Other",
      "enable", "version">>

RECURSIVE merge_user_keys(_, _, _)
\* the loop of _merge_user_config_global from the i-th key on: the mapping
\* conf as the call leaves it, and whether the call raised
merge_user_keys(conf, user_conf, i) ==
    IF i > Len(UserKeyOrder) THEN [conf |-> conf, raised |-> FALSE]
    ELSE LET key == UserKeyOrder[i]
         IN IF key \notin DOMAIN user_conf
            THEN merge_user_keys(conf, user_conf, i + 1)
            ELSE IF key \notin DOMAIN conf
            THEN merge_user_keys(conf @@ (key :> user_conf[key]), user_conf, i + 1)
            ELSE IF is_dict(conf[key]) /\ is_dict(user_conf[key])
            THEN LET r == merge_user_keys(conf[key].v, user_conf[key].v, 1)
                     merged == [conf EXCEPT ![key] = MapValue(r.conf)]
                 IN IF r.raised
                    THEN [conf |-> merged, raised |-> TRUE]
                    ELSE merge_user_keys(merged, user_conf, i + 1)
            ELSE IF py_eq(conf[key], user_conf[key])
            THEN merge_user_keys(conf, user_conf, i + 1)
            ELSE IF same_type(conf[key], user_conf[key])
            THEN merge_user_keys([conf EXCEPT ![key] = user_conf[key]],
                                 user_conf, i + 1)
            ELSE [conf |-> conf, raised |-> TRUE]

_merge_user_config_global(conf, user_conf) == merge_user_keys(conf, user_conf, 1)

\* the mappings over the keys K with values in V
MappingsOver(K, V) == UNION {[D -> V] : D \in SUBSET K}

LeafValues == {StrValue(<<"x">>), IntValue(1), IntValue(2), BoolValue(1)}
NestedMappings == MappingsOver({"k"}, LeafValues)
ConfValues == LeafValues \cup {MapValue(m) : m \in NestedMappings}
Configurations == MappingsOver({"a", "b"}, ConfValues)

InitUserConfig ==
    /\ script = IdleScript
    /\ DispatchIdleInit
    /\ flt = IdleFilter
    /\ res = IdleResolver
    /\ \E c \in Configurations, u \in Configurations :
          yml = [phase |-> "load", conf |-> c, user_conf |-> u,
                 merged |-> c, raised |-> FALSE]

\* cls._merge_user_config_global(conf, user_conf) in merge_user_config
MergeUserConfig ==
    /\ yml.phase = "load"
    /\ LET r == _merge_user_config_global(yml.conf, yml.user_conf)
       IN yml' = [yml EXCEPT !.phase = "merged", !.merged = r.conf,
                             !.raised = r.raised]
    /\ UNCHANGED <<script, dispVars, flt, res>>

NextUserConfig == MergeUserConfig

SpecUserConfig == InitUserConfig /\ [][NextUserConfig]_vars

RECURSIVE Conflicting(_, _)
\* some key of both mappings, at any depth, holds two values that are not
\* both mappings, are not equal and are of different types
Conflicting(c, u) ==
    \E k \in DOMAIN c \cap DOMAIN u :
        IF c[k].t = "map" /\ u[k].t = "map"
        THEN Conflicting(c[k].v, u[k].v)
        ELSE ~py_eq(c[k], u[k]) /\ c[k].t # u[k].t

RECURSIVE MergedAsStated(_, _, _)
\* r is the mapping the claim describes for the defaults c and the user's u
MergedAsStated(c, u, r) ==
    /\ DOMAIN r = DOMAIN c \cup DOMAIN u
    /\ \A k \in DOMAIN c \ DOMAIN u : r[k] = c[k]
    /\ \A k \in DOMAIN u \ DOMAIN c : r[k] = u[k]
    /\ \A k \in DOMAIN c \cap DOMAIN u :
          IF c[k].t = "map" /\ u[k].t = "map"
          THEN r[k].t = "map" /\ MergedAsStated(c[k].v, u[k].v, r[k].v)
          ELSE IF py_eq(c[k], u[k]) THEN r[k] = c[k]
          ELSE c[k].t = u[k].t /\ r[k] = u[k]

\* C18: the merge of the user configuration onto the defaults raises a
\* conflict exactly when a key of both holds unequal values of different
\* types (not both mappings); otherwise two mappings are merged recursively,
\* an equal value is kept, a user value of the same type replaces the
\* default, a user-only key is added and a default-only key is unchanged.
C18_MergeUserConfig ==
    yml.phase = "merged" =>
        /\ yml.raised <=> Conflicting(yml.conf, yml.user_conf)
        /\ ~yml.raised => MergedAsStated(yml.conf, yml.user_conf, yml.merged)

\* a merge without conflict in which a nested mapping was merged key by key
\* with a value replaced, and a key of the user alone was added
C18_Witness ==
    /\ yml.phase = "merged" /\ ~yml.raised
    /\ "a" \in DOMAIN yml.conf /\ "a" \in DOMAIN yml.user_conf
    /\ yml.conf["a"] = MapValue("k" :> IntValue(1))
    /\ yml.user_conf["a"] = MapValue("k" :> IntValue(2))
    /\ yml.merged["a"] = MapValue("k" :> IntValue(2))
    /\ "b" \notin DOMAIN yml.conf /\ "b" \in DOMAIN yml.user_conf
    /\ yml.merged["b"] = yml.user_conf["b"]

-----------------------------------------------------------------------------
(* merge_clang_tidy_checks on its own: a base list of checks and a delta   *)
(* of one entry.                                                           *)

MaxChecks == 3

SPACED_BAR_FOO == <<" ">> \o BAR_FOO \o <<" ">>

\* the entries a base list is written with
BaseEntries == {FOO_STAR, BAR_PIKA, Neg(BAR_FOO), Neg(BAR_STAR), BAR_STAR, SPACED_BAR_FOO}

\* the entries a delta is made of
DeltaEntries == {Neg(BAR_PIKA), Neg(BAR_STAR), Neg(BAR_FOO), BAR_FOO, BAR_PIKA, BAR_STAR}

BaseLists == {l \in SeqsUpTo(BaseEntries, MaxChecks) : l # <<>>}

InitChecks ==
    /\ script = IdleScript
    /\ DispatchIdleInit
    /\ flt = IdleFilter
    /\ res = IdleResolver
    /\ \E base \in {StrValue(join(l)) : l \in BaseLists} \cup {NoneValue},
          delta \in DeltaEntries :
          yml = [phase |-> "checks", orig_checks |-> base,
                 new_checks |-> StrValue(delta), result |-> NoneValue]

\* test_func(orig_checks, new_check)
MergeChecks ==
    /\ yml.phase = "checks"
    /\ yml' = [yml EXCEPT !.phase = "merged",
                          !.result = merge_clang_tidy_checks(yml.orig_checks,
                                                             yml.new_checks)]
    /\ UNCHANGED <<script, dispVars, flt, res>>

NextChecks == MergeChecks

SpecChecks == InitChecks /\ [][NextChecks]_vars

\* the entries of a list of checks, in order, without the blanks around them
EntriesOf(value) ==
    IF value = NoneValue THEN <<>>
    ELSE [i \in 1..Len(split(value.v)) |-> strip(split(value.v)[i])]

RECURSIVE Unmatched(_, _)
\* the entries that match none of the wildcard patterns pats, in order
Unmatched(entries, pats) ==
    IF entries = <<>> THEN <<>>
    ELSE IF \E p \in pats : fnmatch(Head(entries), GlobOfString(p))
    THEN Unmatched(Tail(entries), pats)
    ELSE <<Head(entries)>> \o Unmatched(Tail(entries), pats)

Delta == yml.new_checks.v
Result == EntriesOf(yml.result)

\* C19: with a delta of one negating entry '-P' the result is the base
\* entries that match neither the pattern P nor the pattern '-P', in base
\* order, followed by '-P'; the two examples of the test give the stated lists.
C19_NegatingDelta ==
    yml.phase = "merged" /\ startswith_dash(Delta) =>
        /\ yml.result =
              StrValue(join(Unmatched(EntriesOf(yml.orig_checks), {Tail(Delta), Delta})
                            \o <<Delta>>))
        /\ yml.orig_checks = StrValue(ORIG_CHECKS) /\ Delta = Neg(BAR_PIKA)
              => Result = <<FOO_STAR, Neg(BAR_FOO), Neg(BAR_PIKA)>>
        /\ yml.orig_checks = StrValue(ORIG_CHECKS) /\ Delta = Neg(BAR_STAR)
              => Result = <<FOO_STAR, Neg(BAR_STAR)>>

\* '-bar-*' merged into a base that holds a check and a negation it matches
\* and a check it does not match
C19_Witness ==
    /\ yml.phase = "merged"
    /\ yml.orig_checks = StrValue(ORIG_CHECKS)
    /\ Delta = Neg(BAR_STAR)
    /\ Result = <<FOO_STAR, Neg(BAR_STAR)>>

\* the base entries that are still in the result: all of it but the delta
\* entry appended last
KeptBase == SubSeq(Result, 1, Len(Result) - 1)

\* the two examples of the test with a positive delta
PositiveExamples ==
    /\ yml.orig_checks = StrValue(ORIG_CHECKS) /\ Delta = BAR_FOO
          => Result = <<FOO_STAR, BAR_PIKA, BAR_FOO>>
    /\ yml.orig_checks = StrValue(ORIG_CHECKS) /\ Delta = BAR_PIKA
          => Result = <<FOO_STAR, Neg(BAR_FOO), BAR_PIKA>>

\* C20: with a delta of one positive entry P the result ends with P and holds
\* no base entry '-Q' whose pattern Q matches P by wildcard; the two examples
\* of the test give the stated lists.
C20_PositiveDelta ==
    yml.phase = "merged" /\ ~startswith_dash(Delta) =>
        /\ Result # <<>> /\ Result[Len(Result)] = Delta
        /\ \A i \in 1..Len(KeptBase) :
              startswith_dash(KeptBase[i])
                  => ~fnmatch(Delta, GlobOfString(Tail(KeptBase[i])))
        /\ PositiveExamples

\* C20, amended: with a delta of one positive entry P the result is the base
\* entries that match neither the pattern '-P' nor the pattern P, in base
\* order, followed by P: a base negation '-Q' goes when P matches Q, and
\* stays when Q is the wider of the two.
C20_PositiveDeltaCovers ==
    yml.phase = "merged" /\ ~startswith_dash(Delta) =>
        /\ yml.result =
              StrValue(join(Unmatched(EntriesOf(yml.orig_checks), {Neg(Delta), Delta})
                            \o <<Delta>>))
        /\ \A i \in 1..Len(KeptBase) :
              startswith_dash(KeptBase[i])
                  => ~fnmatch(Tail(KeptBase[i]), GlobOfString(Delta))
        /\ PositiveExamples

\* 'bar-foo' merged into a base that holds its negation
C20_Witness ==
    /\ yml.phase = "merged"
    /\ yml.orig_checks = StrValue(ORIG_CHECKS)
    /\ Delta = BAR_FOO
    /\ Result = <<FOO_STAR, BAR_PIKA, BAR_FOO>>

-----------------------------------------------------------------------------
(* merge_clang_tidy_checks with a delta of several entries, and the result *)
(* merged with the same delta once more.                                   *)

ListEntries == {FOO_STAR, BAR_PIKA, Neg(BAR_FOO), Neg(BAR_STAR)}

CheckLists == {l \in SeqsUpTo(ListEntries, MaxChecks) : l # <<>>}

InitLists ==
    /\ script = IdleScript
    /\ DispatchIdleInit
    /\ flt = IdleFilter
    /\ res = IdleResolver
    /\ \E base \in {StrValue(join(l)) : l \in CheckLists} \cup {NoneValue},
          delta \in CheckLists :
          yml = [phase |-> "lists", orig_checks |-> base,
                 new_checks |-> StrValue(join(delta)),
                 result |-> NoneValue, again |-> NoneValue]

\* merge_clang_tidy_checks(orig_checks, new_checks)
MergeLists ==
    /\ yml.phase = "lists"
    /\ yml' = [yml EXCEPT !.phase = "merged",
                          !.result = merge_clang_tidy_checks(yml.orig_checks,
                                                             yml.new_checks)]
    /\ UNCHANGED <<script, dispVars, flt, res>>

\* merge_clang_tidy_checks(result, new_checks)
MergeAgain ==
    /\ yml.phase = "merged"
    /\ yml' = [yml EXCEPT !.phase = "again",
                          !.again = merge_clang_tidy_checks(yml.result,
                                                            yml.new_checks)]
    /\ UNCHANGED <<script, dispVars, flt, res>>

NextLists == MergeLists \/ MergeAgain

SpecLists == InitLists /\ [][NextLists]_vars

\* an entry without its leading '-'
NameOf(entry) == IF startswith_dash(entry) THEN Tail(entry) ELSE entry

NoRepeat(l) == \A i, j \in 1..Len(l) : i # j => l[i] # l[j]

\* no entry, with or without its leading '-', is matched by another entry
\* taken as it stands as a wildcard pattern, and no entry is repeated
WildcardDisjoint(l) ==
    /\ NoRepeat(l)
    /\ \A i, j \in 1..Len(l) :
          i # j => /\ ~fnmatch(l[j], GlobOfString(l[i]))
                   /\ ~fnmatch(NameOf(l[j]), GlobOfString(l[i]))

\* the same with the pattern too taken with and without its leading '-'
NameDisjoint(l) ==
    /\ WildcardDisjoint(l)
    /\ \A i, j \in 1..Len(l) :
          i # j => /\ ~fnmatch(l[j], GlobOfString(NameOf(l[i])))
                   /\ ~fnmatch(NameOf(l[j]), GlobOfString(NameOf(l[i])))

\* the list is merged with itself
SelfMerge == yml.phase = "again" /\ yml.orig_checks = yml.new_checks

\* C21: for every rule list L of pairwise wildcard-disjoint entries, none
\* repeated, merging L with L returns L, and merging the result with L again
\* returns L.
C21_SelfMergeIdempotent ==
    SelfMerge /\ WildcardDisjoint(EntriesOf(yml.new_checks)) =>
        yml.result = yml.orig_checks /\ yml.again = yml.orig_checks

\* C21, amended: the same for the lists in which no entry, with or without
\* its leading '-', is matched by another entry taken as a pattern with or
\* without its own leading '-'.
C21_SelfMergeIdempotentNames ==
    SelfMerge /\ NameDisjoint(EntriesOf(yml.new_checks)) =>
        yml.result = yml.orig_checks /\ yml.again = yml.orig_checks

\* the list of the test, three entries that leave one another alone, merged
\* with itself twice
C21_Witness ==
    /\ SelfMerge
    /\ yml.orig_checks = StrValue(ORIG_CHECKS)
    /\ NameDisjoint(EntriesOf(yml.new_checks))
    /\ yml.again = StrValue(ORIG_CHECKS)

\* the entries of the delta list, in order
DeltaList == EntriesOf(yml.new_checks)

\* the last Len(DeltaList) entries of the result
ResultTail ==
    IF Len(Result) < Len(DeltaList) THEN <<>>
    ELSE SubSeq(Result, Len(Result) - Len(DeltaList) + 1, Len(Result))

\* C22: for every base list and delta list the result ends with all the
\* delta entries, in the order of the delta list, after every surviving base
\* entry; a base of None returns the delta list unchanged.
C22_DeltaAppended ==
    yml.phase = "merged" =>
        IF yml.orig_checks = NoneValue THEN yml.result = yml.new_checks
        ELSE ResultTail = DeltaList

\* the wildcard patterns a delta entry removes by
PatternsOf(entry) == {NameOf(entry), Neg(NameOf(entry))}

RECURSIVE SurvivorsFrom(_, _, _)
\* the entries of all, from the k-th on, that no delta entry placed after
\* them in all matches by one of its patterns (the delta entries being the
\* entries of all after the first nbase)
SurvivorsFrom(all, nbase, k) ==
    IF k > Len(all) THEN <<>>
    ELSE IF \E m \in (nbase + 1)..Len(all) :
               m > k /\ \E p \in PatternsOf(all[m]) : fnmatch(all[k], GlobOfString(p))
    THEN SurvivorsFrom(all, nbase, k + 1)
    ELSE <<all[k]>> \o SurvivorsFrom(all, nbase, k + 1)

\* C22, amended: each delta entry is appended after its removals, which
\* take away the base entries and the delta entries appended before it that
\* it matches: the result is the base entries then the delta entries, in
\* order, less every entry that a delta entry placed after it matches, so
\* that the last delta entry is always last; a base of None returns the
\* delta list unchanged.
C22_DeltaAppendedUnlessRemoved ==
    yml.phase = "merged" =>
        IF yml.orig_checks = NoneValue THEN yml.result = yml.new_checks
        ELSE /\ Result = SurvivorsFrom(EntriesOf(yml.orig_checks) \o DeltaList,
                                       Len(EntriesOf(yml.orig_checks)), 1)
             /\ Result[Len(Result)] = DeltaList[Len(DeltaList)]

\* a delta of two entries that leave each other alone, after a base that
\* loses two entries to the first
C22_Witness ==
    /\ yml.phase = "merged"
    /\ yml.orig_checks = StrValue(ORIG_CHECKS)
    /\ DeltaList = <<Neg(BAR_STAR), BAR_PIKA>>
    /\ Result = <<FOO_STAR, Neg(BAR_STAR), BAR_PIKA>>

-----------------------------------------------------------------------------
(* One call of Tool.prepare_config (lib.py) or of Tool.setup_config         *)
(* (cpplib.py) on the files of one tool, the three modification times free. *)

\* self.config_key("merge_yaml_func"): do_merge_yaml, or its partial
\* application with transformers=dict(Checks=merge_clang_tidy_checks)
merge_yaml_func(k) ==
    IF k = "ClangTidy" THEN TransformersChecks ELSE TransformersNone

\* Tool.setup_config of tool k on the files f: [files, raised]
setup_config(k, f) ==
    IF f.tracked /\ f.config.exists
    THEN [files |-> f, raised |-> "none"]
    ELSE IF f.custom.exists
    THEN LET r == merge_yaml_files(<<f.bbp, f.custom>>, f.config, merge_yaml_func(k))
         IN [files |-> [f EXCEPT !.config = r.out], raised |-> r.raised]
    ELSE IF ~f.config.exists \/ f.config.mtime < f.bbp.mtime
    THEN [files |-> [f EXCEPT !.config = copy_file(f.bbp, f.config)], raised |-> "none"]
    ELSE [files |-> f, raised |-> "none"]

DefaultChoices == {[BBP_CONFIG EXCEPT !.mtime = t] : t \in 1..MaxTime}

InitConfig ==
    /\ script = IdleScript
    /\ DispatchIdleInit
    /\ flt = IdleFilter
    /\ res = IdleResolver
    /\ \E k \in ConfigTools, tr \in BOOLEAN, c \in ConfigChoices,
          cu \in CustomChoices, d \in DefaultChoices :
          LET f == [tracked |-> tr, config |-> c, custom |-> cu, bbp |-> d]
          IN yml = [phase |-> "config", tool |-> k, via |-> "none",
                    before |-> f, files |-> f, raised |-> "none"]

\* tool.prepare_config()
PrepareConfig ==
    /\ yml.phase = "config"
    /\ LET r == prepare_config(yml.tool, yml.before)
       IN yml' = [yml EXCEPT !.phase = "prepared", !.via = "prepare_config",
                             !.files = r.files, !.raised = r.raised]
    /\ UNCHANGED <<script, dispVars, flt, res>>

\* tool.setup_config(source_dir)
SetupConfig ==
    /\ yml.phase = "config"
    /\ LET r == setup_config(yml.tool, yml.before)
       IN yml' = [yml EXCEPT !.phase = "prepared", !.via = "setup_config",
                             !.files = r.files, !.raised = r.raised]
    /\ UNCHANGED <<script, dispVars, flt, res>>

NextConfig == PrepareConfig \/ SetupConfig

SpecConfig == InitConfig /\ [][NextConfig]_vars

\* C23: a generated configuration file that exists and is tracked by version
\* control is left as it is by prepare_config and by setup_config, whatever
\* the default file and the changes file are.
C23_TrackedUntouched ==
    yml.phase = "prepared" /\ yml.before.tracked /\ yml.before.config.exists =>
        yml.files = yml.before /\ yml.raised = "none"

\* a tracked file older than a changes file and than the default file, after
\* prepare_config
C23_Witness ==
    /\ yml.phase = "prepared" /\ yml.via = "prepare_config"
    /\ yml.before.tracked /\ yml.before.config.exists
    /\ yml.before.custom.exists
    /\ yml.before.config.mtime < yml.before.custom.mtime
    /\ yml.before.config.mtime < yml.before.bbp.mtime
    /\ yml.files.config = yml.before.config

\* the generated file is stale relative to its sources
StaleConfig ==
    \/ ~yml.before.config.exists
    \/ yml.before.config.mtime < yml.before.bbp.mtime
    \/ yml.before.custom.exists /\ yml.before.config.mtime < yml.before.custom.mtime

\* the changes file, when there is one, is a mapping
ChangesWellFormed ==
    yml.before.custom.exists => yml.before.custom.content.kind = "dict"

\* C24: prepare_config rewrites an untracked generated file if and only if
\* it is stale relative to its sources (granted that the call does not raise
\* and that the changes file is a mapping).
C24_RewrittenIffStale ==
    /\ yml.phase = "prepared" /\ yml.via = "prepare_config"
    /\ ~yml.before.tracked /\ yml.raised = "none" /\ ChangesWellFormed
    => (yml.files.config # yml.before.config <=> StaleConfig)

-----------------------------------------------------------------------------
(* bbp-clang-tidy.py: one clang-tidy invocation per collected file, on a   *)
(* multiprocessing.Pool, the results taken by imap_unordered as the        *)
(* workers deliver them.                                                   *)

MaxCpus == 4
MaxListed == 4

SOURCE_DIR == <<"/", "s">>

\* os.path.join(source_dir, x)
path_join(dir, x) ==
    IF Prefix(<<"/">>, x) THEN x
    ELSE IF Suffix(<<"/">>, dir) THEN dir \o x
    ELSE dir \o <<"/">> \o x

\* output.split('\0') of `git ls-tree -r -z --name-only`: every name ends
\* with a NUL, so that the list ends with an empty string
split_nul(listing) == listing \o << <<>> >>

\* collect_files(source_dir, filter_file)
collect_files(source_dir, listing, excludes_re, files_re) ==
    LET names == split_nul(listing)
        kept == AtIdx(names, 1, {i \in 1..Len(names) :
                                    ~make_file_filter(excludes_re, files_re, names[i])})
    IN [i \in 1..Len(kept) |-> path_join(source_dir, kept[i])]

\* max(1, multiprocessing.cpu_count() - 2)
processes(cpu_count) == IF cpu_count - 2 > 1 THEN cpu_count - 2 ELSE 1

last_only(succeeded, ok) == ok

\* succeeded &= ok
and_ok(succeeded, ok) == succeeded /\ ok

NoTask == <<"no task">>

\* the tracked files of the project, in the order of the listing
ListedFiles == <<F_A, F_DE, F_DB, F_G, F_U>>

InitPool ==
    /\ script \in {[phase |-> "start", cpu_count |-> n, compile_commands |-> cc,
                    listing |-> SubSeq(ListedFiles, 1, Min(k, Len(ListedFiles))),
                    excludes_re |-> ex, files_re |-> <<RE_CPP>>,
                    files |-> <<>>, pending |-> <<>>, running |-> <<>>,
                    results |-> <<>>, analysed |-> <<>>, succeeded |-> TRUE] :
                      n \in 1..MaxCpus, cc \in BOOLEAN, k \in 0..MaxListed,
                      ex \in {<<>>, <<RE_DIR_D>>}}
    /\ DispatchIdleInit
    /\ flt = IdleFilter
    /\ res = IdleResolver
    /\ yml = IdleYaml

\* main up to the call of imap_unordered: the pool is created, the compile
\* commands file is looked for, the files are collected
CreatePool ==
    /\ script.phase = "start"
    /\ LET n == processes(script.cpu_count)
           collected == collect_files(SOURCE_DIR, script.listing,
                                      script.excludes_re, script.files_re)
       IN script' =
            IF ~script.compile_commands
            THEN [script EXCEPT !.phase = "raised", !.running = [w \in 1..n |-> NoTask]]
            ELSE [script EXCEPT !.phase = "map", !.running = [w \in 1..n |-> NoTask],
                                !.files = collected, !.pending = collected]
    /\ UNCHANGED <<dispVars, flt, res, yml>>

\* an idle worker takes the next file
TakeTask ==
    /\ script.phase = "map"
    /\ script.pending # <<>>
    /\ \E w \in DOMAIN script.running :
          /\ script.running[w] = NoTask
          /\ script' = [script EXCEPT !.running[w] = Head(script.pending),
                                      !.pending = Tail(script.pending)]
    /\ UNCHANGED <<dispVars, flt, res, yml>>

\* do_check in a worker: clang-tidy ends with some exit status and the
\* result is delivered
DoCheck ==
    /\ script.phase = "map"
    /\ \E w \in DOMAIN script.running, status \in {0, 1} :
          /\ script.running[w] # NoTask
          /\ script' = [script EXCEPT
                          !.running[w] = NoTask,
                          !.analysed = Append(@, [file |-> script.running[w],
                                                  status |-> status]),
                          !.results = Append(@, status = 0)]
    /\ UNCHANGED <<dispVars, flt, res, yml>>

\* one turn of `for ok in workers.imap_unordered(...)`
ConsumeResult ==
    /\ script.phase = "map"
    /\ script.results # <<>>
    /\ script' = [script EXCEPT !.succeeded = and_ok(@, Head(script.results)),
                                !.results = Tail(@)]
    /\ UNCHANGED <<dispVars, flt, res, yml>>

\* the iterator is exhausted: workers.close(), workers.join(), return
ClosePool ==
    /\ script.phase = "map"
    /\ script.pending = <<>>
    /\ script.results = <<>>
    /\ \A w \in DOMAIN script.running : script.running[w] = NoTask
    /\ script' = [script EXCEPT !.phase = "done"]
    /\ UNCHANGED <<dispVars, flt, res, yml>>

NextPool == CreatePool \/ TakeTask \/ DoCheck \/ ConsumeResult \/ ClosePool

SpecPool == InitPool /\ [][NextPool]_vars

\* the number of invocations made on the file f
TimesAnalysed(f) ==
    Cardinality({i \in 1..Len(script.analysed) : script.analysed[i].file = f})

\* C25: the pool has max(1, processor count - 2) workers; when main returns,
\* every collected file has been analysed exactly once and the result is
\* success if and only if every invocation succeeded, in whatever order the
\* workers completed.
C25_PoolRunsEachFileOnce ==
    /\ script.phase \in {"map", "done"} =>
          /\ Cardinality(DOMAIN script.running)
                = (IF script.cpu_count > 3 THEN script.cpu_count - 2 ELSE 1)
          /\ \A f \in Elems(script.files) : TimesAnalysed(f) <= 1
    /\ script.phase = "done" =>
          /\ \A f \in Elems(script.files) : TimesAnalysed(f) = 1
          /\ Len(script.analysed) = Len(script.files)
          /\ script.succeeded
                <=> \A i \in 1..Len(script.analysed) : script.analysed[i].status = 0

\* three files on two workers, the second file completed first and failed,
\* the last one succeeded
C25_Witness ==
    /\ script.phase = "done"
    /\ Len(script.files) = 3
    /\ Cardinality(DOMAIN script.running) = 2
    /\ script.analysed[1].file = script.files[2]
    /\ script.analysed[1].status = 1
    /\ script.analysed[3].status = 0
    /\ ~script.succeeded

-----------------------------------------------------------------------------
(* bbp-diff-filter.py.  A line of the diff is a sequence of pieces: the    *)
(* pieces "diff --git", " a/" and " b/" stand for these very characters,   *)
(* every other piece is one character.                                     *)

MaxLines == 4

DIFF_GIT == "diff --git"
SIDE_A == " a/"
SIDE_B == " b/"

\* the greatest index of the piece " b/" in the line, 0 when there is none
last_side_b(line) ==
    LET at == {i \in 1..Len(line) : line[i] = SIDE_B}
    IN IF at = {} THEN 0 ELSE CHOOSE i \in at : \A j \in at : j <= i

\* the first group of the first of DIFF_HEADER_PATTERNS that matches,
\* "^diff --git a/.* b/(.*)$" then "^diff --git a/(.*)$"; <<>> when neither
\* matches (None) and when the group is empty
header_filename(line) ==
    IF Len(line) >= 2 /\ line[1] = DIFF_GIT /\ line[2] = SIDE_A
    THEN IF last_side_b(line) > 2
         THEN SubSeq(line, last_side_b(line) + 1, Len(line))
         ELSE SubSeq(line, 3, Len(line))
    ELSE <<>>

\* line.startswith("diff --git")
startswith_diff_git(line) == line # <<>> /\ line[1] = DIFF_GIT

\* osp.realpath(osp.join(args.source_dir, filename)), no symbolic link
realpath_in_source_dir(filename) == path_join(SOURCE_DIR, filename)

\* the header of the section of file `to`, renamed from `from`
Header(from, to) == <<DIFF_GIT, SIDE_A>> \o from \o <<SIDE_B>> \o to

DiffLines ==
    {Header(F_A, F_A), Header(F_DB, F_DB), Header(F_A, F_DE),
     <<DIFF_GIT, SIDE_A>> \o F_DB,
     <<DIFF_GIT, " ", "c">>,
     <<"+", "x">>,
     <<>>}

DiffFilters ==
    {[excludes_re |-> <<>>, files_re |-> <<RE_CPP>>],
     [excludes_re |-> <<[pre |-> SOURCE_DIR \o <<"/", "d", "/">>, wild |-> TRUE,
                          suf |-> <<>>]>>,
      files_re |-> <<RE_CPP, RE_PY>>],
     [excludes_re |-> <<>>, files_re |-> <<RE_DIR_D>>]}

InitDiff ==
    /\ script \in {[phase |-> "cli", action |-> a, config_tracked |-> t,
                    excludes_re |-> f.excludes_re,
                    files_re |-> f.files_re, input |-> in, stdin |-> in,
                    line |-> <<>>, printed |-> <<>>, returned |-> FALSE] :
                      a \in BOOLEAN, t \in BOOLEAN,
                      f \in DiffFilters, in \in SeqsUpTo(DiffLines, MaxLines)}
    /\ DispatchIdleInit
    /\ flt = IdleFilter
    /\ res = IdleResolver
    /\ yml = IdleYaml

\* line = input() with the position to go on from: EOFError ends main, which
\* returns True
read_line(st, next) ==
    IF st.stdin = <<>>
    THEN [st EXCEPT !.phase = "done", !.returned = TRUE]
    ELSE [st EXCEPT !.phase = next, !.line = Head(st.stdin), !.stdin = Tail(st.stdin)]

\* parse_cli for the executable "diff-filter", the name drawn from the name
\* of the script: the parser demands the positional `action`, and
\* Tool("diff-filter").setup_config returns only when the project tracks a
\* file .diff-filter; otherwise it asks `diff-filter --version` for a
\* version and looks for a default file that is not shipped, and raises
parse_cli(action, config_tracked) ==
    IF ~action THEN "usage"
    ELSE IF ~config_tracked THEN "raised"
    ELSE "start"

\* args = parse_cli(description=description, **kwargs)
ParseCli ==
    /\ script.phase = "cli"
    /\ script' = [script EXCEPT
                    !.phase = parse_cli(script.action, script.config_tracked)]
    /\ UNCHANGED <<dispVars, flt, res, yml>>

\* the first input()
ReadFirst ==
    /\ script.phase = "start"
    /\ script' = read_line(script, "outer")
    /\ UNCHANGED <<dispVars, flt, res, yml>>

\* one turn of `while True`, up to its input()
OuterTurn ==
    /\ script.phase = "outer"
    /\ LET filename == header_filename(script.line)
       IN IF /\ filename # <<>>
             /\ ~make_file_filter(script.excludes_re, script.files_re,
                                  realpath_in_source_dir(filename))
          THEN script' = read_line([script EXCEPT !.printed = Append(@, script.line)],
                                   "inner")
          ELSE script' = read_line(script, "outer")
    /\ UNCHANGED <<dispVars, flt, res, yml>>

\* one test of `while not line.startswith("diff --git")` and the turn it
\* allows, or the `continue` that follows the loop
InnerTurn ==
    /\ script.phase = "inner"
    /\ IF ~startswith_diff_git(script.line)
       THEN script' = read_line([script EXCEPT !.printed = Append(@, script.line)],
                                "inner")
       ELSE script' = [script EXCEPT !.phase = "outer"]
    /\ UNCHANGED <<dispVars, flt, res, yml>>

NextDiff == ParseCli \/ ReadFirst \/ OuterTurn \/ InnerTurn

SpecDiff == InitDiff /\ [][NextDiff]_vars

\* the line is the header of a section: 'diff --git a/...' naming a file
IsHeader(line) == header_filename(line) # <<>>

\* the file of the section is kept by the filter
KeptFile(line) ==
    ~make_file_filter(script.excludes_re, script.files_re,
                      realpath_in_source_dir(header_filename(line)))

RECURSIVE KeptLines(_, _, _)
\* the lines, from the i-th on, of the sections whose file is kept; keeping
\* tells whether the i-th line falls in such a section
KeptLines(lines, i, keeping) ==
    IF i > Len(lines) THEN <<>>
    ELSE IF IsHeader(lines[i])
    THEN IF KeptFile(lines[i])
         THEN <<lines[i]>> \o KeptLines(lines, i + 1, TRUE)
         ELSE KeptLines(lines, i + 1, FALSE)
    ELSE IF lines[i] # <<>> /\ lines[i][1] = DIFF_GIT
    THEN KeptLines(lines, i + 1, FALSE)
    ELSE IF keeping THEN <<lines[i]>> \o KeptLines(lines, i + 1, TRUE)
    ELSE KeptLines(lines, i + 1, FALSE)

\* C26: the program, called with an action argument, ends with success
\* having printed, in input order, exactly the lines of the sections whose
\* file the filter keeps; what is printed before the end is the start of that.
C26_DiffFilter ==
    /\ script.phase \in {"done", "usage", "raised"} /\ script.action =>
          /\ script.phase = "done"
          /\ script.printed = KeptLines(script.input, 1, FALSE)
          /\ script.returned
    /\ script.phase \in {"outer", "inner"} =>
          Prefix(script.printed, KeptLines(script.input, 1, FALSE))

\* the filter loop alone: once parse_cli has returned, the claim holds
DiffFilterLoop ==
    script.phase = "done" =>
        script.printed = KeptLines(script.input, 1, FALSE) /\ script.returned

-----------------------------------------------------------------------------
(* Explicit directories among the sources of run_task_on_codebase *)

\* a source is a directory and every qualifying tool takes directories
DirectoryForCapableTools ==
    /\ tools # <<>>
    /\ \E s \in Elems(sources) : isdir(s)
    /\ \A k \in Elems(tools) : TOOLS_DESCRIPTION[k].cli_accept_dir

\* C27: when an explicit source is a directory and every qualifying tool
\* accepts directories, the call does not end with the directory passed to
\* no tool: some invocation has an explicit directory among its arguments.
C27_DirectoryPassed ==
    pc = "done" /\ DirectoryForCapableTools =>
        \E i \in 1..Len(invoked), s \in Elems(sources) :
            isdir(s) /\ \E f \in Elems(invoked[i].files) : f \in {s, join_cwd(s)}

-----------------------------------------------------------------------------
(* The files run for their version during the resolution of a tool *)

\* the patterns of alternative names as the descriptor of the tool writes
\* them, 'clang-tidy-*' one pattern
DescribedPatterns(k) ==
    IF k = "ClangTidy" THEN <<GlobOfString(CLANG_TIDY \o <<"-", "*">>)>>
    ELSE TOOLS_DESCRIPTION[k].names_glob_patterns

\* the name is the name of the tool or matches one of its patterns
NamedAfterTool(k, name) ==
    \/ name = TOOLS_DESCRIPTION[k].name
    \/ \E i \in 1..Len(DescribedPatterns(k)) : fnmatch(name, DescribedPatterns(k)[i])

\* C28: every file executed for version detection during the resolution of
\* a tool bears the name of the tool or a name that matches one of its
\* versioned-name patterns.
C28_OnlyToolBinariesRun ==
    res.phase # "idle" =>
        \A i \in 1..Len(res.executed) : NamedAfterTool(res.tool, res.executed[i].name)

-----------------------------------------------------------------------------
(* BBPProject.from_config_files: the tool_confs of the project *)

\* bool(value)
truthy(value) ==
    CASE value.t \in {"int", "bool"} -> value.v # 0
      [] value.t = "none" -> FALSE
      [] OTHER -> DOMAIN value.v # {}

\* conf.setdefault("tools", {}) and an empty mapping for a tool left null
_sanitize_config(conf) ==
    LET tool_confs == IF "tools" \in DOMAIN conf THEN conf["tools"].v ELSE <<>>
    IN ("tools" :> MapValue([name \in DOMAIN tool_confs |->
                                IF tool_confs[name] = NoneValue THEN MapValue(<<>>)
                                ELSE tool_confs[name]])) @@ conf

\* config.setdefault("enable", True) for the tools of the default file
setdefault_enable(conf) ==
    [conf EXCEPT !["tools"] =
        MapValue([name \in DOMAIN conf["tools"].v |->
                     MapValue(conf["tools"].v[name].v @@ ("enable" :> BoolValue(1)))])]

\* config.get("enable", True)
get_enable(config) ==
    IF "enable" \in DOMAIN config THEN config["enable"] ELSE BoolValue(1)

_merge_user_config_tools(conf, user_conf) ==
    LET tool_confs == IF "tools" \in DOMAIN user_conf THEN user_conf["tools"].v ELSE <<>>
        conf_tools == conf["tools"].v
    IN [conf EXCEPT !["tools"] =
           MapValue([name \in DOMAIN conf_tools |->
                        IF name \in DOMAIN tool_confs
                        THEN MapValue(("enable" :> get_enable(tool_confs[name].v))
                                      @@ conf_tools[name].v)
                        ELSE conf_tools[name]])]

\* BBPProject.merge_user_config
merge_user_config(conf, user_conf) ==
    LET r == _merge_user_config_global(conf, user_conf)
    IN IF r.raised THEN r
       ELSE [conf |-> _merge_user_config_tools(r.conf, user_conf), raised |-> FALSE]

\* the section 'global' is popped; every other tool gets a copy of it that
\* the tool's own settings update
_apply_global_conf(conf) ==
    LET tool_confs == conf["tools"].v
        others == [name \in DOMAIN tool_confs \ {"global"} |-> tool_confs[name]]
    IN IF "global" \notin DOMAIN tool_confs \/ ~truthy(tool_confs["global"])
       THEN [conf EXCEPT !["tools"] = MapValue(others)]
       ELSE [conf EXCEPT !["tools"] =
                MapValue([name \in DOMAIN others |->
                             MapValue(others[name].v @@ tool_confs["global"].v)])]

keep_disabled_tools(conf) == conf

_exclude_disabled_tools(conf) ==
    LET tool_confs == conf["tools"].v
    IN [conf EXCEPT !["tools"] =
           MapValue([name \in {n \in DOMAIN tool_confs : truthy(tool_confs[n].v["enable"])} |->
                        tool_confs[name]])]

\* BBPProject.tools: the described tool_confs that the configuration holds
BBPProject_tools(conf) == {name \in ToolKeys : name \in DOMAIN conf["tools"].v}

\* from_config_files, with the user file when the project has one: the merged
\* configuration before the disabled tool_confs leave it, the configuration of the
\* project and its tool_confs
from_config_files(default_conf, has_user, user_file) ==
    LET conf == setdefault_enable(_sanitize_config(default_conf))
        r == IF has_user THEN merge_user_config(conf, _sanitize_config(user_file))
             ELSE [conf |-> conf, raised |-> FALSE]
        merged == _apply_global_conf(r.conf)
        final == _exclude_disabled_tools(merged)
    IN IF r.raised
       THEN [raised |-> TRUE, merged |-> r.conf, conf |-> r.conf, tools |-> {}]
       ELSE [raised |-> FALSE, merged |-> merged, conf |-> final,
             tools |-> BBPProject_tools(final)]

TOOL_OFF == MapValue(("enable" :> BoolValue(0)))
TOOL_ON == MapValue(("enable" :> BoolValue(1)))
DefaultToolConfs == {NoneValue, TOOL_OFF, TOOL_ON}
UserToolConfs ==
    {NoneValue, TOOL_OFF, TOOL_ON, MapValue(("enable" :> IntValue(0))),
     MapValue(("version" :> StrValue(<<"x">>)))}
DefaultFiles ==
    {"tools" :> MapValue(m) : m \in MappingsOver({"ClangFormat", "Black"}, DefaultToolConfs)}
UserFiles ==
    {<<>>} \cup
    {"tools" :> MapValue(m) :
        m \in MappingsOver({"ClangFormat", "Black", "Other", "global"}, UserToolConfs)}

InitEnable ==
    /\ script = IdleScript
    /\ DispatchIdleInit
    /\ flt = IdleFilter
    /\ res = IdleResolver
    /\ \E d \in DefaultFiles, has_user \in BOOLEAN, u \in UserFiles :
          /\ ~has_user => u = <<>>
          /\ yml = [phase |-> "load", default_conf |-> d, has_user |-> has_user,
                    user_conf |-> u, merged |-> d, conf |-> d, tools |-> {},
                    raised |-> FALSE, selected |-> <<>>]

\* BBPProject.from_config_files()
FromConfigFiles ==
    /\ yml.phase = "load"
    /\ LET p == from_config_files(yml.default_conf, yml.has_user, yml.user_conf)
       IN yml' = [yml EXCEPT !.phase = IF p.raised THEN "raised" ELSE "project",
                             !.merged = p.merged, !.conf = p.conf,
                             !.tools = p.tools, !.raised = p.raised]
    /\ UNCHANGED <<script, dispVars, flt, res>>

\* list(project.tools_for_task(task, languages)) on the project just made
SelectTools ==
    /\ yml.phase = "project"
    /\ \E t \in Tasks, langs \in LanguageChoices :
          yml' = [yml EXCEPT !.phase = "task",
                             !.selected = tools_for_task(yml.tools, t, langs)]
    /\ UNCHANGED <<script, dispVars, flt, res>>

NextEnable == FromConfigFiles \/ SelectTools

SpecEnable == InitEnable /\ [][NextEnable]_vars

\* the value of 'enable' that the two files give a tool: the user's when the
\* user file has a section for the tool, True when that section does not say,
\* the default file's otherwise
EnableAsWritten(name) ==
    LET user_tools == IF yml.has_user /\ "tools" \in DOMAIN yml.user_conf
                      THEN yml.user_conf["tools"].v ELSE <<>>
        default_tools == yml.default_conf["tools"].v
        section == IF name \in DOMAIN user_tools THEN user_tools[name]
                   ELSE default_tools[name]
    IN IF section = NoneValue THEN TRUE ELSE truthy(get_enable(section.v))

\* the tools that one of the two files names
Configured ==
    DOMAIN yml.default_conf["tools"].v \cup
    (IF yml.has_user /\ "tools" \in DOMAIN yml.user_conf
     THEN DOMAIN yml.user_conf["tools"].v ELSE {})

\* C29: after from_config_files the tools of the project are described in
\* TOOLS_DESCRIPTION and enabled in the merged configuration, they are the
\* described tools that the files configure and enable, and tools_for_task
\* yields none but them.
C29_DisabledToolsExcluded ==
    yml.phase \in {"project", "task"} =>
        /\ \A name \in yml.tools :
              /\ name \in ToolKeys
              /\ name \in DOMAIN yml.merged["tools"].v
              /\ truthy(yml.merged["tools"].v[name].v["enable"])
        /\ yml.tools = {name \in ToolKeys \cap Configured : EnableAsWritten(name)}
        /\ Elems(yml.selected) \subseteq yml.tools

\* a project with a disabled described tool and an enabled one that a task
\* selects
C29_Witness ==
    /\ yml.phase = "task"
    /\ yml.selected # <<>>
    /\ \E name \in ToolKeys \cap DOMAIN yml.merged["tools"].v :
          ~truthy(yml.merged["tools"].v[name].v["enable"])

-----------------------------------------------------------------------------
(* bbp-setup-pre-commit-config.py: the hooks of the pre-commit file *)

HPC_PRE_COMMITS_REPO_URL == "https://github.com/BlueBrain/hpc-pre-commits"
DEFAULT_HPC_PRE_COMMIT_REPO ==
    [repo |-> HPC_PRE_COMMITS_REPO_URL, rev |-> "master", hooks |-> <<>>]

CHECK_CLANG_FORMAT == <<"c", "h", "e", "c", "k", "-">> \o CLANG_FORMAT
CHECK_CMAKE_FORMAT == <<"c", "h", "e", "c", "k", "-">> \o CMAKE_FORMAT
COURTESY_MSG == <<"c", "o", "u", "r", "t", "e", "s", "y", "-", "m", "s", "g">>
GIT_PUSH_MESSAGE ==
    <<"g", "i", "t", "-", "p", "u", "s", "h", "-", "m", "e", "s", "s", "a", "g", "e",
      ".", "c", "m", "a", "k", "e">>

ALL_HOOKS(build_dir) ==
    << [cls |-> "CMakeTargetHook", build_dir |-> build_dir, target |-> CHECK_CLANG_FORMAT],
       [cls |-> "CMakeTargetHook", build_dir |-> build_dir, target |-> CHECK_CMAKE_FORMAT],
       [cls |-> "CMakeTargetHook", build_dir |-> build_dir, target |-> CLANG_TIDY],
       [cls |-> "CMakeScriptHook", name |-> COURTESY_MSG,
        file |-> path_join(build_dir, GIT_PUSH_MESSAGE)] >>

\* CMakeTargetHook.name is the target, CMakeScriptHook.name a field
hook_name(hook) == IF hook.cls = "CMakeTargetHook" THEN hook.target ELSE hook.name

\* the first index of the set, the one a loop with break stops at
first_index(indices) == CHOOSE i \in indices : \A j \in indices : i <= j

\* PreCommitConfig._initialize_bbp_repo: the configuration with its 'repos'
\* list and the BBP entry in it, and the place of that entry
_initialize_bbp_repo(config) ==
    LET repos == IF "repos" \in DOMAIN config THEN config["repos"] ELSE <<>>
        found == {i \in 1..Len(repos) : repos[i].repo = HPC_PRE_COMMITS_REPO_URL}
    IN IF found # {}
       THEN [config |-> ("repos" :> [repos EXCEPT ![first_index(found)] =
                                        @ @@ DEFAULT_HPC_PRE_COMMIT_REPO]) @@ config,
             at |-> first_index(found)]
       ELSE [config |-> ("repos" :> Append(repos, DEFAULT_HPC_PRE_COMMIT_REPO)) @@ config,
             at |-> Len(repos) + 1]

append_hook(hooks, new_hook) == Append(hooks, new_hook)

\* PreCommitConfig._enable_hook on the hook list of the BBP entry
_enable_hook(hooks, new_hook) ==
    LET found == {i \in 1..Len(hooks) :
                     <<hooks[i].id, hooks[i].name>> = <<new_hook.id, new_hook.name>>}
    IN IF found # {}
       THEN [hooks EXCEPT ![first_index(found)] = new_hook @@ @]
       ELSE Append(hooks, new_hook)

enable_cmake_hook(hooks, name, stages, args, extra) ==
    _enable_hook(hooks, extra @@ [id |-> "hpc-pc-cmake-build", args |-> args,
                                  name |-> name, stages |-> stages])

\* CMakeTargetHook.enable and CMakeScriptHook.enable
enable(hook, hooks, stages) ==
    IF hook.cls = "CMakeTargetHook"
    THEN enable_cmake_hook(hooks, hook.target, stages,
                           <<"--build", hook.build_dir, "--target", hook.target>>,
                           [always_run |-> TRUE])
    ELSE enable_cmake_hook(hooks, hook.name, stages, <<"-P", hook.file>>,
                           [always_run |-> TRUE, verbose |-> TRUE])

disable_cmake_hook(hooks, name) ==
    LET found == {i \in 1..Len(hooks) :
                     <<name, "hpc-pc-cmake-build">> = <<hooks[i].name, hooks[i].id>>}
    IN IF found = {} THEN hooks
       ELSE SubSeq(hooks, 1, first_index(found) - 1)
            \o SubSeq(hooks, first_index(found) + 1, Len(hooks))

RECURSIVE add_stage(_, _, _, _)
\* the inner loop of main over names.split(","): each name that is not blank
\* gets the stage, hook_stages keeping the names in the order they first come
add_stage(hook_stages, names, i, stage) ==
    IF i > Len(names) THEN hook_stages
    ELSE LET name == strip(names[i])
             found == {j \in 1..Len(hook_stages) : hook_stages[j].name = name}
         IN IF name = <<>> THEN add_stage(hook_stages, names, i + 1, stage)
            ELSE IF found = {}
            THEN add_stage(Append(hook_stages, [name |-> name, stages |-> <<stage>>]),
                           names, i + 1, stage)
            ELSE add_stage([hook_stages EXCEPT ![first_index(found)].stages =
                               Append(@, stage)],
                           names, i + 1, stage)

\* the dictionary main builds from the two options
hook_stages_of(commit_checks, push_checks) ==
    add_stage(add_stage(<<>>, split(commit_checks), 1, "commit"),
              split(push_checks), 1, "push")

RECURSIVE enable_listed(_, _, _, _)
\* the loop of main over hook_stages.items(): a known hook leaves `hooks`
\* and is enabled, an unknown name is warned about
enable_listed(hook_stages, i, known, bbp_hooks) ==
    IF i > Len(hook_stages) THEN [known |-> known, hooks |-> bbp_hooks]
    ELSE LET found == {j \in 1..Len(known) : hook_name(known[j]) = hook_stages[i].name}
         IN IF found = {}
            THEN enable_listed(hook_stages, i + 1, known, bbp_hooks)
            ELSE LET j == first_index(found)
                 IN enable_listed(hook_stages, i + 1,
                                  SubSeq(known, 1, j - 1) \o SubSeq(known, j + 1, Len(known)),
                                  enable(known[j], bbp_hooks, hook_stages[i].stages))

RECURSIVE disable_others(_, _, _)
\* the loop of main over the hooks that were not listed
disable_others(known, i, bbp_hooks) ==
    IF i > Len(known) THEN bbp_hooks
    ELSE disable_others(known, i + 1, disable_cmake_hook(bbp_hooks, hook_name(known[i])))

NoPreCommitFile == [exists |-> FALSE, config |-> <<>>]

\* main up to config.save(): the file as the run leaves it and whether the
\* run wrote it. The file holds the configuration itself: what yaml.dump
\* writes of these mappings, lists, strings and booleans, yaml.load reads
\* back equal.
setup_pre_commit_config(file, commit_checks, push_checks, build_dir) ==
    LET loaded == IF file.exists THEN file.config ELSE <<>>
        init == _initialize_bbp_repo(loaded)
        _previous_config == init.config
        enabled == enable_listed(hook_stages_of(commit_checks, push_checks), 1,
                                 ALL_HOOKS(build_dir),
                                 init.config["repos"][init.at].hooks)
        bbp_hooks == disable_others(enabled.known, 1, enabled.hooks)
        config == [init.config EXCEPT !["repos"][init.at].hooks = bbp_hooks]
    IN IF _previous_config # config
       THEN [file |-> [exists |-> TRUE, config |-> config], written |-> TRUE]
       ELSE [file |-> file, written |-> FALSE]

\* fix_hook_file on a git hook script known by its first line; "empty" is a
\* script without a line, where lines[0] raises
fix_hook_file(hook) ==
    IF hook = "/usr/bin/env python" THEN "/usr/bin/env sys.executable" ELSE hook

BUILD_1 == <<"b", "1">>
BUILD_2 == <<"b", "2">>
CheckLists_cli ==
    {<<>>, CLANG_TIDY,
     <<"x", ",">> \o CHECK_CLANG_FORMAT,
     COURTESY_MSG \o <<",">> \o CLANG_TIDY,
     CLANG_TIDY \o <<",">> \o CLANG_TIDY,
     <<" ">> \o CLANG_TIDY \o <<" ", ",">>}
HookScripts == {"absent", "empty", "/usr/bin/env python"}
NoArgs == [commit_checks |-> <<>>, push_checks |-> <<>>, build_dir |-> <<>>]

InitPreCommit ==
    /\ \E h1 \in HookScripts, h2 \in HookScripts \ {"empty"} :
          script = [phase |-> "absent", file |-> NoPreCommitFile, args |-> NoArgs,
                    same_args |-> FALSE, written |-> FALSE, raised |-> FALSE,
                    pre_commit |-> h1, pre_push |-> h2]
    /\ DispatchIdleInit
    /\ flt = IdleFilter
    /\ res = IdleResolver
    /\ yml = IdleYaml

\* one run of main: the configuration is set up and saved, then the two git
\* hook scripts are patched
SetupPreCommitConfig ==
    /\ script.phase \in {"absent", "ran"}
    /\ \E commit_checks \in CheckLists_cli, push_checks \in CheckLists_cli,
          build_dir \in {BUILD_1, BUILD_2} :
          LET r == setup_pre_commit_config(script.file, commit_checks, push_checks,
                                           build_dir)
          IN script' = [script EXCEPT
                 !.phase = "ran",
                 !.file = r.file,
                 !.written = r.written,
                 !.args = [commit_checks |-> commit_checks,
                           push_checks |-> push_checks, build_dir |-> build_dir],
                 !.same_args = /\ script.phase = "ran"
                               /\ script.args = [commit_checks |-> commit_checks,
                                                 push_checks |-> push_checks,
                                                 build_dir |-> build_dir],
                 !.raised = "empty" \in {script.pre_commit, script.pre_push},
                 !.pre_commit = fix_hook_file(@),
                 !.pre_push = IF script.pre_commit = "empty" THEN @
                              ELSE fix_hook_file(@)]
    /\ UNCHANGED <<dispVars, flt, res, yml>>

NextPreCommit == SetupPreCommitConfig

SpecPreCommit == InitPreCommit /\ [][NextPreCommit]_vars

KnownHookNames == {hook_name(ALL_HOOKS(BUILD_1)[i]) : i \in 1..4}

\* the places of the name in the comma-separated option, blanks stripped
ListedAt(name, checks) ==
    {i \in 1..Len(split(checks)) : strip(split(checks)[i]) = name}

Listed(name, checks) == ListedAt(name, checks) # {}

\* n times the stage
Times(stage, n) == [i \in 1..n |-> stage]

\* the hook list of the BBP entry of the pre-commit file
BBPHooks ==
    IF ~script.file.exists THEN <<>>
    ELSE LET entries == script.file.config["repos"]
         IN entries[CHOOSE i \in 1..Len(entries) :
                        entries[i].repo = HPC_PRE_COMMITS_REPO_URL].hooks

HooksNamed(name) == {i \in 1..Len(BBPHooks) : BBPHooks[i].name = name}

\* the file holds one BBP entry, and a run with the arguments of the run
\* before it (same_args) wrote nothing
OneEntryAndIdempotent ==
    /\ script.file.exists =>
          Cardinality({i \in 1..Len(script.file.config["repos"]) :
              script.file.config["repos"][i].repo = HPC_PRE_COMMITS_REPO_URL}) = 1
    /\ script.same_args => ~script.written

\* C30 as stated: after the runs, every known hook name listed by the last
\* run has exactly one hook, whose stages are commit when --commit-checks
\* lists it followed by push when --push-checks lists it; a name the last run
\* did not list has no hook; a run with the arguments of the run before it
\* leaves the file unwritten.
C30_HooksOfLastRun ==
    script.phase = "ran" =>
        /\ OneEntryAndIdempotent
        /\ \A name \in KnownHookNames :
              IF Listed(name, script.args.commit_checks)
                 \/ Listed(name, script.args.push_checks)
              THEN /\ Cardinality(HooksNamed(name)) = 1
                   /\ \A i \in HooksNamed(name) :
                         BBPHooks[i].stages =
                             (IF Listed(name, script.args.commit_checks)
                              THEN <<"commit">> ELSE <<>>)
                             \o (IF Listed(name, script.args.push_checks)
                                 THEN <<"push">> ELSE <<>>)
              ELSE HooksNamed(name) = {}

\* C30, amended: the stages of the one hook of a listed name are commit once
\* for each time --commit-checks lists the name, followed by push once for
\* each time --push-checks lists it.
C30_HooksOfLastRunPerListing ==
    script.phase = "ran" =>
        /\ OneEntryAndIdempotent
        /\ \A name \in KnownHookNames :
              IF Listed(name, script.args.commit_checks)
                 \/ Listed(name, script.args.push_checks)
              THEN /\ Cardinality(HooksNamed(name)) = 1
                   /\ \A i \in HooksNamed(name) :
                         BBPHooks[i].stages =
                             Times("commit",
                                   Cardinality(ListedAt(name, script.args.commit_checks)))
                             \o Times("push",
                                      Cardinality(ListedAt(name, script.args.push_checks)))
              ELSE HooksNamed(name) = {}

\* a run with the arguments of the run before it, which list a name twice
\* for commits and another name for pushes, has left the file unwritten
C30_Witness ==
    /\ script.phase = "ran"
    /\ script.same_args
    /\ ~script.written
    /\ \E name \in KnownHookNames :
          Cardinality(ListedAt(name, script.args.commit_checks)) = 2
    /\ \E name \in KnownHookNames :
          /\ ~Listed(name, script.args.commit_checks)
          /\ HooksNamed(name) # {}

====
